---- MODULE Spec2Model ----
(***************************************************************************)
(* The design model (UMLModel), its mutation API, its wire format          *)
(* (to_dict / from_dict), the change-application protocol of               *)
(* DiagramGenerator.update_diagram and the Mermaid renderer.               *)
(*                                                                         *)
(* Strings are Python strings.  Confidences are written in hundredths      *)
(* (100 stands for 1.0).  A dict is a record whose DOMAIN is the set of    *)
(* keys present; dict.get(key, default) is Get.                            *)
(***************************************************************************)
EXTENDS Integers, Sequences, FiniteSets, TLC

VARIABLES
    classes,        \* UMLModel.classes: sequence of UMLClass
    relationships,  \* UMLModel.relationships: sequence of UMLRelationship
    change,         \* the element of `changes` the loop of update_diagram reached last
    k,              \* number of changes of the list applied without raising
    n,              \* len(changes) of the running update_diagram call
    result,         \* what update_diagram returns: "running" (not yet), "diagram",
                    \* "generation_failed" or "update_failed" (the two error dicts)
    returned,       \* return value of the UMLModel call made by the last change
    added,          \* arguments of the add_class calls made so far (SpecMerge)
    text,           \* the requirement text given to the extraction pipeline
    adapter,        \* the model handles of BERTExtractor and SpaCyAnalyzer
    extracted,      \* what extract_entities returned for the chunks so far, in order
    nlp_result,     \* NLPResult: the raw entities and relationships
    chunking        \* the running call of chunk_text: its parameters and locals

vars == <<classes, relationships, change, k, n, result, returned, added,
          text, adapter, extracted, nlp_result, chunking>>

\* the variables of the extraction pipeline, which update_diagram does not touch
nlp_vars == <<text, adapter, extracted, nlp_result, chunking>>

-----------------------------------------------------------------------------
(* Bounds *)

MaxChanges == 2       \* longest change list given to update_diagram
MaxDataClasses == 2   \* most classes in a serialized model given to from_dict
MaxDataRels == 1      \* most relationships in a serialized model
MaxAddCalls == 3      \* longest sequence of add_class calls (SpecMerge)

-----------------------------------------------------------------------------
(* Python values *)

None == "<None>"                    \* the value of dict.get on a missing key
NoChange == [type |-> "<none>"]     \* no change applied yet

\* str.lower on the strings that occur as names
Lower(s) ==
    CASE s = "User" -> "user"
      [] s = "Account" -> "account"
      [] s = "NewClass" -> "newclass"
      [] s = "API" -> "api"
      [] s = "userName" -> "username"
      [] s = "JSON" -> "json"
      [] OTHER -> s

Get(d, key, default) == IF key \in DOMAIN d THEN d[key] ELSE default

\* x in list (equality of dataclasses is equality of all fields)
InSeq(x, s) == \E i \in 1..Len(s) : s[i] = x

\* list.remove(x): drops the first element equal to x
ListRemove(s, x) ==
    LET j == CHOOSE i \in 1..Len(s) : s[i] = x /\ \A h \in 1..(i-1) : s[h] # x
    IN  SubSeq(s, 1, j-1) \o SubSeq(s, j+1, Len(s))

DefaultConfidence == 100

\* enum RelationshipType: value tag -> member; "ValueError" for any other tag
RelationshipType(tag) ==
    CASE tag = "composition" -> "COMPOSITION"
      [] tag = "aggregation" -> "AGGREGATION"
      [] tag = "association" -> "ASSOCIATION"
      [] tag = "inheritance" -> "INHERITANCE"
      [] OTHER -> "ValueError"

\* RelationshipType.value
TypeValue(member) ==
    CASE member = "COMPOSITION" -> "composition"
      [] member = "AGGREGATION" -> "aggregation"
      [] member = "ASSOCIATION" -> "association"
      [] member = "INHERITANCE" -> "inheritance"

-----------------------------------------------------------------------------
(* UMLModel *)

\* index of the first class whose name matches ignoring case, 0 for None
find_class(cs, name) ==
    IF \E i \in 1..Len(cs) : Lower(cs[i].name) = Lower(name)
    THEN CHOOSE i \in 1..Len(cs) :
            /\ Lower(cs[i].name) = Lower(name)
            /\ \A h \in 1..(i-1) : Lower(cs[h].name) # Lower(name)
    ELSE 0

\* index of the first relationship whose pair matches ignoring case, 0 for None
find_relationship(rs, source, target) ==
    IF \E i \in 1..Len(rs) : Lower(rs[i].source) = Lower(source)
                             /\ Lower(rs[i].target) = Lower(target)
    THEN CHOOSE i \in 1..Len(rs) :
            /\ Lower(rs[i].source) = Lower(source)
            /\ Lower(rs[i].target) = Lower(target)
            /\ \A h \in 1..(i-1) : ~(Lower(rs[h].source) = Lower(source)
                                     /\ Lower(rs[h].target) = Lower(target))
    ELSE 0

\* the elements of `new` that are not in `old`, computed before `old` is extended
NotIn(new, old) == SelectSeq(new, LAMBDA x : ~InSeq(x, old))

add_class(cs, c) ==
    LET i == find_class(cs, c.name)
    IN  IF i # 0
        THEN [cs EXCEPT ![i].attributes = @ \o NotIn(c.attributes, @),
                        ![i].methods = @ \o NotIn(c.methods, @)]
        ELSE Append(cs, c)

\* add_relationship without the lookup
add_relationship_always_appends(rs, r) == Append(rs, r)

\* add_relationship storing r itself in place of the existing relationship
add_relationship_replaces(rs, r) ==
    LET i == find_relationship(rs, r.source, r.target)
    IN  IF i # 0 THEN [rs EXCEPT ![i] = r] ELSE Append(rs, r)

add_relationship(rs, r) ==
    LET i == find_relationship(rs, r.source, r.target)
    IN  IF i # 0
        THEN [rs EXCEPT ![i].type = r.type, ![i].confidence = r.confidence]
        ELSE Append(rs, r)

\* returns the model left and the bool returned
remove_class(cs, rs, name) ==
    LET i == find_class(cs, name)
    IN  IF i # 0
        THEN [classes |-> ListRemove(cs, cs[i]),
              relationships |-> SelectSeq(rs, LAMBDA rel : rel.source # name
                                                         /\ rel.target # name),
              returned |-> "True"]
        ELSE [classes |-> cs, relationships |-> rs, returned |-> "False"]

\* remove_relationship reporting the match without removing it
remove_relationship_reports_only(cs, rs, source, target) ==
    [classes |-> cs, relationships |-> rs,
     returned |-> IF find_relationship(rs, source, target) # 0 THEN "True" ELSE "False"]

remove_relationship(cs, rs, source, target) ==
    LET i == find_relationship(rs, source, target)
    IN  IF i # 0
        THEN [classes |-> cs, relationships |-> ListRemove(rs, rs[i]),
              returned |-> "True"]
        ELSE [classes |-> cs, relationships |-> rs, returned |-> "False"]

-----------------------------------------------------------------------------
(* Dataclass constructors, as called with a dict of the wire format *)

EmptyDict == << >>

\* a list entry that is not a dict is written [notdict |-> v]; .get on it raises
IsDict(e) == "notdict" \notin DOMAIN e

PointFromDict(cd) ==
    [x |-> Get(Get(cd, "position", EmptyDict), "x", 0),
     y |-> Get(Get(cd, "position", EmptyDict), "y", 0)]

UMLClassFromDict(cd) ==
    LET
        MethodFromDict(m) ==
            [name |-> m.name,
             parameters |-> Get(m, "parameters", << >>),
             return_type |-> Get(m, "return_type", "void"),
             visibility |-> Get(m, "visibility", "+"),
             is_static |-> Get(m, "is_static", FALSE)]
        \* from_dict: Attribute(name=attr['name'], type=attr.get('type', 'String'), ...)
        AttributeFromDict(a) ==
            [name |-> a.name,
             type |-> Get(a, "type", "String"),
             visibility |-> Get(a, "visibility", "+"),
             is_static |-> Get(a, "is_static", FALSE)]
    IN
    [name |-> cd.name,
     attributes |-> [i \in 1..Len(Get(cd, "attributes", << >>)) |->
                        AttributeFromDict(cd.attributes[i])],
     methods |-> [i \in 1..Len(Get(cd, "methods", << >>)) |->
                        MethodFromDict(cd.methods[i])],
     position |-> PointFromDict(cd),
     confidence |-> Get(cd, "confidence", DefaultConfidence)]

UMLRelationshipFromDict(rd) ==
    [source |-> rd.source,
     target |-> rd.target,
     type |-> RelationshipType(rd.type),
     multiplicity_source |-> Get(rd, "multiplicity_source", "1"),
     multiplicity_target |-> Get(rd, "multiplicity_target", "1"),
     label |-> Get(rd, "label", ""),
     confidence |-> Get(rd, "confidence", DefaultConfidence)]

RECURSIVE AddClasses(_, _)
AddClasses(cs, cds) ==
    IF cds = << >> THEN cs
    ELSE AddClasses(add_class(cs, UMLClassFromDict(Head(cds))), Tail(cds))

RECURSIVE AddRelationships(_, _)
AddRelationships(rs, rds) ==
    IF rds = << >> THEN rs
    ELSE AddRelationships(add_relationship(rs, UMLRelationshipFromDict(Head(rds))),
                          Tail(rds))

\* from_dict raises (KeyError on a missing name, ValueError on an unknown type tag)
FromDictRaises(data) ==
    \/ \E i \in 1..Len(Get(data, "classes", << >>)) :
          "name" \notin DOMAIN data.classes[i]
    \/ \E i \in 1..Len(Get(data, "relationships", << >>)) :
          \/ {"source", "target", "type"} \ DOMAIN data.relationships[i] # {}
          \/ RelationshipType(Get(data.relationships[i], "type", None)) = "ValueError"

from_dict(data) ==
    [classes |-> AddClasses(<< >>, Get(data, "classes", << >>)),
     relationships |-> AddRelationships(<< >>, Get(data, "relationships", << >>))]

to_dict(cs, rs) ==
    [classes |->
        [i \in 1..Len(cs) |->
            [name |-> cs[i].name,
             attributes |->
                [j \in 1..Len(cs[i].attributes) |->
                    [name |-> cs[i].attributes[j].name,
                     type |-> cs[i].attributes[j].type,
                     visibility |-> cs[i].attributes[j].visibility,
                     is_static |-> cs[i].attributes[j].is_static]],
             methods |->
                [j \in 1..Len(cs[i].methods) |->
                    [name |-> cs[i].methods[j].name,
                     parameters |-> cs[i].methods[j].parameters,
                     return_type |-> cs[i].methods[j].return_type,
                     visibility |-> cs[i].methods[j].visibility,
                     is_static |-> cs[i].methods[j].is_static]],
             position |-> [x |-> cs[i].position.x, y |-> cs[i].position.y],
             confidence |-> cs[i].confidence]],
     relationships |->
        [i \in 1..Len(rs) |->
            [source |-> rs[i].source,
             target |-> rs[i].target,
             type |-> TypeValue(rs[i].type),
             multiplicity_source |-> rs[i].multiplicity_source,
             multiplicity_target |-> rs[i].multiplicity_target,
             label |-> rs[i].label,
             confidence |-> rs[i].confidence]]]

-----------------------------------------------------------------------------
(* DiagramGenerator: the handlers of _apply_change.  Each returns the model  *)
(* it leaves, whether it raised, and what the UMLModel call returned.        *)

Outcome(cs, rs, raised, ret) ==
    [classes |-> cs, relationships |-> rs, raised |-> raised, returned |-> ret]

\* _add_class / _modify_class: Attribute(name=attr_data.get('name', 'attribute'), ...)
AttributeFromChange(a) ==
    [name |-> Get(a, "name", "attribute"),
     type |-> Get(a, "type", "String"),
     visibility |-> Get(a, "visibility", "+"),
     is_static |-> FALSE]

MethodFromChange(m) ==
    [name |-> Get(m, "name", "method"),
     parameters |-> Get(m, "parameters", << >>),
     return_type |-> Get(m, "return_type", "void"),
     visibility |-> Get(m, "visibility", "+"),
     is_static |-> FALSE]

\* number of leading entries of a list that are dicts: the loop over the list
\* raises at the first entry that is not
LeadingDicts(l) ==
    IF \A i \in 1..Len(l) : IsDict(l[i]) THEN Len(l)
    ELSE (CHOOSE i \in 1..Len(l) :
            ~IsDict(l[i]) /\ \A h \in 1..(i-1) : IsDict(l[h])) - 1

\* cls.name.lower() == name.lower() raises on name None once a class is compared
FindClassRaises(cs, name) == name = None /\ cs # << >>

\* the same for a pair; `and` evaluates target.lower() only after a source match
FindRelationshipRaises(rs, source, target) ==
    \/ source = None /\ rs # << >>
    \/ /\ source # None
       /\ target = None
       /\ \E i \in 1..Len(rs) : Lower(rs[i].source) = Lower(source)

add_class_change(cs, rs, ch) ==
    LET class_data == Get(ch, "class", EmptyDict)
        attrs == Get(class_data, "attributes", << >>)
        meths == Get(class_data, "methods", << >>)
        new_class ==
            [name |-> Get(class_data, "name", "NewClass"),
             attributes |-> [j \in 1..Len(attrs) |-> AttributeFromChange(attrs[j])],
             methods |-> [j \in 1..Len(meths) |-> MethodFromChange(meths[j])],
             position |-> PointFromDict(class_data),
             confidence |-> DefaultConfidence]
    IN  IF LeadingDicts(attrs) < Len(attrs) \/ LeadingDicts(meths) < Len(meths)
        THEN Outcome(cs, rs, TRUE, None)
        ELSE Outcome(add_class(cs, new_class), rs, FALSE, None)

remove_class_change(cs, rs, ch) ==
    LET class_name == Get(ch, "class_name", None)
    IN  IF class_name # None /\ class_name # ""
        THEN LET out == remove_class(cs, rs, class_name)
             IN  Outcome(out.classes, out.relationships, FALSE, out.returned)
        ELSE Outcome(cs, rs, FALSE, None)

\* _modify_class carrying a new name to the ends of the relationships
modify_class_change_renames_ends(cs, rs, ch) ==
    LET class_name == Get(ch, "class_name", None)
        modifications == Get(ch, "modifications", EmptyDict)
        i == find_class(cs, class_name)
        new_name == Get(modifications, "name", cs[i].name)
        renamed(nm) == IF nm = cs[i].name THEN new_name ELSE nm
    IN  IF FindClassRaises(cs, class_name) THEN Outcome(cs, rs, TRUE, None)
        ELSE IF i = 0 THEN Outcome(cs, rs, FALSE, None)
        ELSE Outcome([cs EXCEPT ![i].name = new_name],
                     [j \in 1..Len(rs) |->
                         [rs[j] EXCEPT !.source = renamed(@), !.target = renamed(@)]],
                     FALSE, None)

modify_class_change(cs, rs, ch) ==
    LET class_name == Get(ch, "class_name", None)
        modifications == Get(ch, "modifications", EmptyDict)
        i == find_class(cs, class_name)
        attrs == Get(modifications, "add_attributes", << >>)
        meths == Get(modifications, "add_methods", << >>)
        na == LeadingDicts(attrs)
        nm == LeadingDicts(meths)
        renamed == IF "name" \in DOMAIN modifications
                   THEN [cs EXCEPT ![i].name = modifications.name]
                   ELSE cs
        withAttrs == [renamed EXCEPT ![i].attributes =
                        @ \o [j \in 1..na |-> AttributeFromChange(attrs[j])]]
        withMeths == [withAttrs EXCEPT ![i].methods =
                        @ \o [j \in 1..nm |-> MethodFromChange(meths[j])]]
    IN  IF FindClassRaises(cs, class_name) THEN Outcome(cs, rs, TRUE, None)
        ELSE IF i = 0 THEN Outcome(cs, rs, FALSE, None)
        ELSE IF na < Len(attrs) THEN Outcome(withAttrs, rs, TRUE, None)
        ELSE Outcome(withMeths, rs, nm < Len(meths), None)

\* _add_relationship falling back to association on an unknown type tag
add_relationship_change_lenient(cs, rs, ch) ==
    LET rel_data == Get(ch, "relationship", EmptyDict)
        kind == RelationshipType(Get(rel_data, "type", "association"))
        relationship ==
            [source |-> Get(rel_data, "source", ""),
             target |-> Get(rel_data, "target", ""),
             type |-> IF kind = "ValueError" THEN "ASSOCIATION" ELSE kind,
             multiplicity_source |-> Get(rel_data, "multiplicity_source", "1"),
             multiplicity_target |-> Get(rel_data, "multiplicity_target", "1"),
             label |-> Get(rel_data, "label", ""),
             confidence |-> DefaultConfidence]
    IN  Outcome(cs, add_relationship(rs, relationship), FALSE, None)

add_relationship_change(cs, rs, ch) ==
    LET rel_data == Get(ch, "relationship", EmptyDict)
        relationship ==
            [source |-> Get(rel_data, "source", ""),
             target |-> Get(rel_data, "target", ""),
             type |-> RelationshipType(Get(rel_data, "type", "association")),
             multiplicity_source |-> Get(rel_data, "multiplicity_source", "1"),
             multiplicity_target |-> Get(rel_data, "multiplicity_target", "1"),
             label |-> Get(rel_data, "label", ""),
             confidence |-> DefaultConfidence]
    IN  IF relationship.type = "ValueError" THEN Outcome(cs, rs, TRUE, None)
        ELSE Outcome(cs, add_relationship(rs, relationship), FALSE, None)

remove_relationship_change(cs, rs, ch) ==
    LET source == Get(ch, "source", None)
        target == Get(ch, "target", None)
    IN  IF source # None /\ source # "" /\ target # None /\ target # ""
        THEN LET out == remove_relationship(cs, rs, source, target)
             IN  Outcome(out.classes, out.relationships, FALSE, out.returned)
        ELSE Outcome(cs, rs, FALSE, None)

\* _modify_relationship assigning the label whether or not it is given
modify_relationship_change_sets_label(cs, rs, ch) ==
    LET source == Get(ch, "source", None)
        target == Get(ch, "target", None)
        modifications == Get(ch, "modifications", EmptyDict)
        i == find_relationship(rs, source, target)
        r0 == rs[i]
        r1 == IF "type" \in DOMAIN modifications
              THEN [r0 EXCEPT !.type = RelationshipType(modifications.type)] ELSE r0
        r2 == IF "multiplicity_source" \in DOMAIN modifications
              THEN [r1 EXCEPT !.multiplicity_source = modifications.multiplicity_source]
              ELSE r1
        r3 == IF "multiplicity_target" \in DOMAIN modifications
              THEN [r2 EXCEPT !.multiplicity_target = modifications.multiplicity_target]
              ELSE r2
        r4 == [r3 EXCEPT !.label = Get(modifications, "label", "")]
    IN  IF FindRelationshipRaises(rs, source, target) THEN Outcome(cs, rs, TRUE, None)
        ELSE IF i = 0 THEN Outcome(cs, rs, FALSE, None)
        ELSE IF r1.type = "ValueError" THEN Outcome(cs, rs, TRUE, None)
        ELSE Outcome(cs, [rs EXCEPT ![i] = r4], FALSE, None)

modify_relationship_change(cs, rs, ch) ==
    LET source == Get(ch, "source", None)
        target == Get(ch, "target", None)
        modifications == Get(ch, "modifications", EmptyDict)
        i == find_relationship(rs, source, target)
        r0 == rs[i]
        r1 == IF "type" \in DOMAIN modifications
              THEN [r0 EXCEPT !.type = RelationshipType(modifications.type)] ELSE r0
        r2 == IF "multiplicity_source" \in DOMAIN modifications
              THEN [r1 EXCEPT !.multiplicity_source = modifications.multiplicity_source]
              ELSE r1
        r3 == IF "multiplicity_target" \in DOMAIN modifications
              THEN [r2 EXCEPT !.multiplicity_target = modifications.multiplicity_target]
              ELSE r2
        r4 == IF "label" \in DOMAIN modifications
              THEN [r3 EXCEPT !.label = modifications.label] ELSE r3
    IN  IF FindRelationshipRaises(rs, source, target) THEN Outcome(cs, rs, TRUE, None)
        ELSE IF i = 0 THEN Outcome(cs, rs, FALSE, None)
        ELSE IF r1.type = "ValueError" THEN Outcome(cs, rs, TRUE, None)
        ELSE Outcome(cs, [rs EXCEPT ![i] = r4], FALSE, None)

ChangeTypes == {"add_class", "remove_class", "modify_class",
                "add_relationship", "remove_relationship", "modify_relationship"}

\* _apply_change raising on a type it does not know
apply_change_unknown_raises(cs, rs, ch) ==
    LET change_type == Get(ch, "type", None)
    IN  CASE change_type = "add_class" -> add_class_change(cs, rs, ch)
          [] change_type = "remove_class" -> remove_class_change(cs, rs, ch)
          [] change_type = "modify_class" -> modify_class_change(cs, rs, ch)
          [] change_type = "add_relationship" -> add_relationship_change(cs, rs, ch)
          [] change_type = "remove_relationship" -> remove_relationship_change(cs, rs, ch)
          [] change_type = "modify_relationship" -> modify_relationship_change(cs, rs, ch)
          [] OTHER -> Outcome(cs, rs, TRUE, None)

\* _apply_change: dispatch on change.get('type'); anything else is logged only
apply_change(cs, rs, ch) ==
    LET change_type == Get(ch, "type", None)
    IN  CASE change_type = "add_class" -> add_class_change(cs, rs, ch)
          [] change_type = "remove_class" -> remove_class_change(cs, rs, ch)
          [] change_type = "modify_class" -> modify_class_change(cs, rs, ch)
          [] change_type = "add_relationship" -> add_relationship_change(cs, rs, ch)
          [] change_type = "remove_relationship" -> remove_relationship_change(cs, rs, ch)
          [] change_type = "modify_relationship" -> modify_relationship_change(cs, rs, ch)
          [] OTHER -> Outcome(cs, rs, FALSE, None)

-----------------------------------------------------------------------------
(* MermaidConverter *)

\* sep.join(lines)
RECURSIVE Join(_, _)
Join(lines, sep) ==
    IF lines = << >> THEN ""
    ELSE IF Len(lines) = 1 THEN lines[1]
    ELSE lines[1] \o sep \o Join(Tail(lines), sep)

\* list.extend over the per-item line lists
RECURSIVE Flatten(_)
Flatten(ll) == IF ll = << >> THEN << >> ELSE Head(ll) \o Flatten(Tail(ll))

relationship_symbols(type) ==
    CASE type = "COMPOSITION" -> "*--"
      [] type = "AGGREGATION" -> "o--"
      [] type = "ASSOCIATION" -> "--"
      [] type = "INHERITANCE" -> "<|--"
      [] OTHER -> "--"

format_mermaid_class(cls) ==
    LET
        format_method_line(method) ==
            LET params == Join(method.parameters, ", ")
                method_line == "    " \o method.visibility \o method.name
                               \o "(" \o params \o "): " \o method.return_type
            IN  IF method.is_static THEN method_line \o " $static" ELSE method_line
        format_attribute_line(attr) ==
            LET attr_line == "    " \o attr.visibility \o attr.name \o ": " \o attr.type
            IN  IF attr.is_static THEN attr_line \o " $static" ELSE attr_line
    IN
    <<"class " \o cls.name \o " {">>
    \o [j \in 1..Len(cls.attributes) |-> format_attribute_line(cls.attributes[j])]
    \o [j \in 1..Len(cls.methods) |-> format_method_line(cls.methods[j])]
    \o <<"}">>

\* str.strip of the space-joined parts, none of which holds white space itself:
\* the empty parts at either end leave only spaces, which are stripped
RECURSIVE StripJoin(_)
StripJoin(parts) ==
    IF parts = << >> THEN ""
    ELSE IF Head(parts) = "" THEN StripJoin(Tail(parts))
    ELSE IF parts[Len(parts)] = "" THEN StripJoin(SubSeq(parts, 1, Len(parts) - 1))
    ELSE Join(parts, " ")

Quoted(m) == IF m # "" THEN "\"" \o m \o "\"" ELSE ""

format_mermaid_relationship(relationship) ==
    LET symbol == relationship_symbols(relationship.type)
        multiplicity_source == Quoted(relationship.multiplicity_source)
        multiplicity_target == Quoted(relationship.multiplicity_target)
        label == IF relationship.label # "" THEN " : " \o relationship.label ELSE ""
    IN  StripJoin(<<relationship.source, multiplicity_source, symbol,
                    multiplicity_target, relationship.target \o label>>)

convert_to_mermaid(cs, rs) ==
    IF cs = << >> THEN "classDiagram\n    note \"No classes found\""
    ELSE Join(<<"classDiagram">>
              \o Flatten([i \in 1..Len(cs) |-> format_mermaid_class(cs[i])])
              \o [i \in 1..Len(rs) |-> format_mermaid_relationship(rs[i])],
              "\n    ")

-----------------------------------------------------------------------------
(* Inputs *)

SeqsUpTo(S, m) == UNION {[1..j -> S] : j \in 0..m}

SerializedModels ==
    LET
        \* entries of 'relationships' in a serialized model
        SerializedRelationships ==
            {[source |-> "User", target |-> "Account", type |-> "composition",
              multiplicity_source |-> "1", multiplicity_target |-> "1..*",
              label |-> "owns", confidence |-> 80],
             [source |-> "user", target |-> "Account", type |-> "association"],
             [source |-> "Account", target |-> "User", type |-> "inheritance",
              multiplicity_source |-> "", multiplicity_target |-> "", confidence |-> 70]}
        \* entries of 'classes' in a serialized model
        SerializedClasses ==
            {[name |-> "User",
              attributes |-> <<[name |-> "id", type |-> "Integer", visibility |-> "-",
                                is_static |-> TRUE]>>,
              methods |-> <<[name |-> "login", parameters |-> <<"name", "password">>,
                             return_type |-> "Boolean", visibility |-> "+",
                             is_static |-> FALSE]>>,
              position |-> [x |-> 10, y |-> 20],
              confidence |-> 90],
             [name |-> "user", attributes |-> <<[name |-> "email"]>>],
             [name |-> "Account", confidence |-> 60]}
    IN
    {[classes |-> cds, relationships |-> rds] :
        cds \in SeqsUpTo(SerializedClasses, MaxDataClasses),
        rds \in SeqsUpTo(SerializedRelationships, MaxDataRels)}

AttributeData == [name |-> "email", type |-> "String", visibility |-> "-"]
MethodData == [name |-> "close", return_type |-> "Boolean"]
NotADict == [notdict |-> "email"]

ModifyClassChanges ==
    LET
        ClassModifications ==
            {[name |-> "user"],
             [name |-> "Account"],
             [add_attributes |-> <<AttributeData>>, add_methods |-> <<MethodData>>],
             [name |-> "Account", add_attributes |-> <<AttributeData, NotADict>>,
              add_methods |-> <<MethodData>>]}
    IN
    {[type |-> "modify_class", class_name |-> nm, modifications |-> m] :
        nm \in {"user", "Account"}, m \in ClassModifications}
    \cup {[type |-> "modify_class", modifications |-> [name |-> "Account"]]}

AddRelationshipChanges ==
    {[type |-> "add_relationship",
      relationship |-> [source |-> s, target |-> t, type |-> "aggregation"]] :
        s \in {"user", "Account"}, t \in {"User", "Account"}}
    \cup {[type |-> "add_relationship",
           relationship |-> [source |-> "user", target |-> "account"]],
          [type |-> "add_relationship",
           relationship |-> [source |-> "User", target |-> "Account",
                             type |-> "uses"]],
          [type |-> "add_relationship",
           relationship |-> [source |-> "User", target |-> "Account",
                             type |-> "inheritance",
                             multiplicity_source |-> "0..1",
                             multiplicity_target |-> "", label |-> "extends"]],
          [type |-> "add_relationship", relationship |-> [target |-> "User"]]}

RemoveRelationshipChanges ==
    {[type |-> "remove_relationship", source |-> "user", target |-> "account"],
     [type |-> "remove_relationship", source |-> "Account", target |-> "User"],
     [type |-> "remove_relationship", source |-> "User"]}

ModifyRelationshipChanges ==
    LET
        RelationshipModifications ==
            {EmptyDict,
             [type |-> "aggregation"],
             [type |-> "uses", label |-> "uses"],
             [multiplicity_source |-> "0..1", multiplicity_target |-> "1..*", label |-> ""],
             [type |-> "inheritance", multiplicity_source |-> "", label |-> "extends"]}
    IN
    {[type |-> "modify_relationship", source |-> p[1], target |-> p[2],
      modifications |-> m] :
        p \in {<<"user", "Account">>, <<"Account", "user">>},
        m \in RelationshipModifications}
    \cup {[type |-> "modify_relationship", modifications |-> [label |-> "x"]],
          [type |-> "modify_relationship", source |-> "user",
           modifications |-> [label |-> "x"]]}

-----------------------------------------------------------------------------
(* update_diagram on the model built by from_dict *)

Init ==
    /\ \E data \in SerializedModels :
          /\ ~FromDictRaises(data)
          /\ classes = from_dict(data).classes
          /\ relationships = from_dict(data).relationships
    /\ n \in 0..MaxChanges
    /\ k = 0
    /\ change = NoChange
    /\ result = "running"
    /\ returned = None
    /\ added = [calls |-> 0, names |-> {}, attributes |-> {}, methods |-> {}]
    /\ text = << >>
    /\ adapter = None
    /\ extracted = << >>
    /\ chunking = None
    /\ nlp_result = [entities |-> << >>, relationships |-> << >>]

\* one iteration of `for change in changes`, on the change the loop has reached;
\* an exception leaves the loop and is turned into the error result
Step(ch) ==
    /\ result = "running"
    /\ k < n
    /\ LET out == apply_change(classes, relationships, ch)
       IN  /\ classes' = out.classes
           /\ relationships' = out.relationships
           /\ returned' = out.returned
           /\ result' = IF out.raised THEN "update_failed" ELSE "running"
           /\ k' = IF out.raised THEN k ELSE k + 1
    /\ change' = ch
    /\ UNCHANGED <<n, added, nlp_vars>>

AddClassChange ==
    LET
        AddClassChanges ==
            {[type |-> "add_class", class |-> [name |-> "Account"]],
             [type |-> "add_class",
              class |-> [name |-> "user", attributes |-> <<AttributeData>>,
                         methods |-> <<MethodData>>, position |-> [x |-> 5]]],
             [type |-> "add_class",
              class |-> [name |-> "Account", attributes |-> <<AttributeData, NotADict>>]]}
    IN  \E ch \in AddClassChanges : Step(ch)

RemoveClassChange ==
    LET
        RemoveClassChanges ==
            {[type |-> "remove_class", class_name |-> "user"],
             [type |-> "remove_class", class_name |-> "Account"],
             [type |-> "remove_class"]}
    IN  \E ch \in RemoveClassChanges : Step(ch)

ModifyClassChange == \E ch \in ModifyClassChanges : Step(ch)
AddRelationshipChange == \E ch \in AddRelationshipChanges : Step(ch)
RemoveRelationshipChange == \E ch \in RemoveRelationshipChanges : Step(ch)
ModifyRelationshipChange == \E ch \in ModifyRelationshipChanges : Step(ch)
UnknownChange ==
    LET
        UnknownChanges == {[type |-> "rename_class", class_name |-> "User"],
                           [class_name |-> "User"]}
    IN  \E ch \in UnknownChanges : Step(ch)

\* validate_mermaid_syntax calls re.search on every input, and the module does
\* not import re: the call raises NameError
ValidateRaises == TRUE

\* generate_diagram(uml_model, "mermaid"): an exception of the generation is
\* caught and turned into an error dict
generate_diagram(cs, rs) ==
    IF ValidateRaises THEN "generation_failed" ELSE "diagram"

\* the list is exhausted: generate_diagram(uml_model, "mermaid") is returned
ReturnDiagram ==
    /\ result = "running"
    /\ k = n
    /\ result' = generate_diagram(classes, relationships)
    /\ UNCHANGED <<classes, relationships, change, k, n, returned, added, nlp_vars>>

Next ==
    \/ AddClassChange
    \/ RemoveClassChange
    \/ ModifyClassChange
    \/ AddRelationshipChange
    \/ RemoveRelationshipChange
    \/ ModifyRelationshipChange
    \/ UnknownChange
    \/ ReturnDiagram

Spec == Init /\ [][Next]_vars

-----------------------------------------------------------------------------
(* A sequence of add_class calls on an empty model *)

Range(s) == {s[i] : i \in 1..Len(s)}

MaxListLen == 2       \* longest attribute / method list of an added class

MergeClasses ==
    LET
        MergeMethods ==
            {[name |-> "login", parameters |-> <<"password">>, return_type |-> "Boolean",
              visibility |-> "+", is_static |-> FALSE]}
        MergeAttributes ==
            {[name |-> "id", type |-> "Integer", visibility |-> "-", is_static |-> FALSE],
             [name |-> "id", type |-> "String", visibility |-> "-", is_static |-> FALSE]}
        Names == {"User", "user", "Account"}
    IN
    {[name |-> nm, attributes |-> as, methods |-> ms, position |-> [x |-> 0, y |-> 0],
      confidence |-> DefaultConfidence] :
        nm \in Names,
        as \in SeqsUpTo(MergeAttributes, MaxListLen),
        ms \in SeqsUpTo(MergeMethods, MaxListLen)}

InitMerge ==
    /\ classes = << >>
    /\ relationships = << >>
    /\ n = 0
    /\ k = 0
    /\ change = NoChange
    /\ result = "idle"
    /\ returned = None
    /\ added = [calls |-> 0, names |-> {}, attributes |-> {}, methods |-> {}]
    /\ text = << >>
    /\ adapter = None
    /\ extracted = << >>
    /\ chunking = None
    /\ nlp_result = [entities |-> << >>, relationships |-> << >>]

AddClassCall ==
    /\ added.calls < MaxAddCalls
    /\ \E c \in MergeClasses :
          /\ classes' = add_class(classes, c)
          /\ added' = [calls |-> added.calls + 1,
                       names |-> added.names \cup {Lower(c.name)},
                       attributes |-> added.attributes \cup Range(c.attributes),
                       methods |-> added.methods \cup Range(c.methods)]
    /\ UNCHANGED <<relationships, change, k, n, result, returned, nlp_vars>>

NextMerge == AddClassCall

SpecMerge == InitMerge /\ [][NextMerge]_vars

-----------------------------------------------------------------------------
(* Properties *)

ChangeType(ch) == Get(ch, "type", None)

\* the step is an iteration of the loop of update_diagram on change'
Iteration == result = "running" /\ k < n

\* indexes of the relationships whose pair equals (source, target) ignoring case
Matching(rs, source, target) ==
    {i \in 1..Len(rs) : Lower(rs[i].source) = Lower(source)
                        /\ Lower(rs[i].target) = Lower(target)}

\* C1: no two classes of the model have names that are equal ignoring case.
UniqueClassNames ==
    \A i, j \in 1..Len(classes) :
        Lower(classes[i].name) = Lower(classes[j].name) => i = j

\* C2: no two relationships of the model have the same (source, target) pair
\* ignoring case.
UniqueRelationshipPairs ==
    \A i, j \in 1..Len(relationships) :
        (Lower(relationships[i].source) = Lower(relationships[j].source)
         /\ Lower(relationships[i].target) = Lower(relationships[j].target)) => i = j

\* an add_relationship change met a stored pair that differs from its own in case
C2_Witness ==
    /\ k >= 1
    /\ ChangeType(change) = "add_relationship"
    /\ Len(relationships) >= 2
    /\ \E i \in 1..Len(relationships) :
          /\ Lower(relationships[i].source) = Lower(Get(change.relationship, "source", ""))
          /\ Lower(relationships[i].target) = Lower(Get(change.relationship, "target", ""))
          /\ relationships[i].target # Get(change.relationship, "target", "")

\* every element of S occurs exactly once in the list, and nothing else does
ExactlyOnce(list, S) == Range(list) = S /\ Len(list) = Cardinality(S)

\* C3: after add_class calls whose names are all equal ignoring case, the model
\* holds exactly one class, whose attribute list and method list hold every
\* attribute (method) of the added classes exactly once and nothing else.
MergeUnion ==
    (added.calls > 0 /\ Cardinality(added.names) = 1) =>
        /\ Len(classes) = 1
        /\ ExactlyOnce(classes[1].attributes, added.attributes)
        /\ ExactlyOnce(classes[1].methods, added.methods)

\* C4: add_relationship(r) on an existing pair replaces only that relationship's
\* kind and confidence (stored source and target, multiplicities, label, position
\* and the number of relationships stay); otherwise r is appended at the end and
\* the existing relationships are unchanged.
AddRelationshipFrame ==
    [][(Iteration /\ k' = k + 1 /\ ChangeType(change') = "add_relationship") =>
        LET rd == Get(change', "relationship", EmptyDict)
            source == Get(rd, "source", "")
            target == Get(rd, "target", "")
            kind == RelationshipType(Get(rd, "type", "association"))
            hit == Matching(relationships, source, target)
            len == Len(relationships)
        IN  IF hit # {}
            THEN /\ Len(relationships') = len
                 /\ \A i \in 1..len :
                      IF i \in hit
                      THEN /\ relationships'[i].type = kind
                           /\ relationships'[i].confidence = DefaultConfidence
                           /\ relationships'[i].source = relationships[i].source
                           /\ relationships'[i].target = relationships[i].target
                           /\ relationships'[i].multiplicity_source
                                = relationships[i].multiplicity_source
                           /\ relationships'[i].multiplicity_target
                                = relationships[i].multiplicity_target
                           /\ relationships'[i].label = relationships[i].label
                      ELSE relationships'[i] = relationships[i]
            ELSE /\ Len(relationships') = len + 1
                 /\ SubSeq(relationships', 1, len) = relationships
                 /\ relationships'[len + 1] =
                      [source |-> source, target |-> target, type |-> kind,
                       multiplicity_source |-> Get(rd, "multiplicity_source", "1"),
                       multiplicity_target |-> Get(rd, "multiplicity_target", "1"),
                       label |-> Get(rd, "label", ""),
                       confidence |-> DefaultConfidence]
    ]_vars

\* an add_relationship change overwrote a stored relationship whose label,
\* multiplicity and casing differ from the ones the change carries
C4_Witness ==
    /\ k >= 1
    /\ ChangeType(change) = "add_relationship"
    /\ Get(change.relationship, "source", "") = "user"
    /\ \E i \in 1..Len(relationships) :
          /\ relationships[i].source = "User"
          /\ relationships[i].target = "Account"
          /\ relationships[i].label = "owns"
          /\ relationships[i].multiplicity_target = "1..*"
          /\ relationships[i].type = "AGGREGATION"
          /\ relationships[i].confidence = DefaultConfidence

\* C5: remove_class(name) returns true exactly when a class named name ignoring
\* case exists; then that class is removed and no relationship is left whose
\* source or target equals the removed class's stored name; when it returns false
\* the model is unchanged.
RemoveClassContract ==
    [][(Iteration /\ k' = k + 1 /\ ChangeType(change') = "remove_class"
        /\ "class_name" \in DOMAIN change') =>
        LET name == change'.class_name
            i == find_class(classes, name)
            found == \E j \in 1..Len(classes) : Lower(classes[j].name) = Lower(name)
        IN  /\ (returned' = "True") <=> found
            /\ found =>
                 /\ classes' = SubSeq(classes, 1, i - 1)
                                 \o SubSeq(classes, i + 1, Len(classes))
                 /\ \A j \in 1..Len(relationships') :
                      /\ relationships'[j].source # classes[i].name
                      /\ relationships'[j].target # classes[i].name
            /\ ~found => (classes' = classes /\ relationships' = relationships)
    ]_vars

\* C6: from_dict(to_dict(m)) has the same classes and relationships, field by
\* field and in the same order, as m.
RoundTrip ==
    from_dict(to_dict(classes, relationships))
        = [classes |-> classes, relationships |-> relationships]

\* C7: rendering from_dict(to_dict(m)) yields the diagram source of rendering m.
RenderRoundTrip ==
    LET back == from_dict(to_dict(classes, relationships))
    IN  convert_to_mermaid(back.classes, back.relationships)
            = convert_to_mermaid(classes, relationships)

\* C8: the changes are applied in list order, each on the model the previous one
\* left; a change whose type is none of the six tags leaves the model unchanged,
\* raises nothing and lets the loop go on to the next change.
UnknownChangeSkipped ==
    [][/\ k' \in {k, k + 1}
       /\ (Iteration /\ ChangeType(change') \notin ChangeTypes) =>
            /\ classes' = classes
            /\ relationships' = relationships
            /\ result' = "running"
            /\ k' = k + 1
    ]_vars

\* a change of unknown type was the last one applied and the list goes on
C8_Witness ==
    /\ k >= 1
    /\ k < n
    /\ result = "running"
    /\ ChangeType(change) \notin ChangeTypes
    /\ classes # << >>

\* the change is an add_relationship whose type tag is none of the four kinds
BadAddRelationship(ch) ==
    /\ ChangeType(ch) = "add_relationship"
    /\ RelationshipType(Get(Get(ch, "relationship", EmptyDict), "type", "association"))
         = "ValueError"

\* C9: when applying a change raises (an add_relationship with an unknown type
\* tag does), update_diagram returns the error result, the model keeps the
\* effects of the changes before it, and no later change is applied.
PartialApplication ==
    [][/\ (Iteration /\ BadAddRelationship(change')) =>
            /\ result' = "update_failed"
            /\ classes' = classes
            /\ relationships' = relationships
       /\ (result = "running" /\ result' = "update_failed") => (k' = k /\ k < n)
       /\ result = "update_failed" =>
            (classes' = classes /\ relationships' = relationships
             /\ k' = k /\ result' = "update_failed")
    ]_vars

\* the second change of a list raised after the first was applied
C9_Witness ==
    /\ result = "update_failed"
    /\ k >= 1
    /\ k < n
    /\ BadAddRelationship(change)

\* C10: a modify_relationship change for a pair that matches no relationship
\* ignoring case leaves the model unchanged; for a matching pair it changes only
\* the fields given in the modifications among kind, the two multiplicities and
\* the label: source, target and confidence of that relationship, every other
\* relationship, the number of relationships and the classes stay.
ModifyRelationshipFrame ==
    [][(Iteration /\ ChangeType(change') = "modify_relationship") =>
        LET source == Get(change', "source", None)
            target == Get(change', "target", None)
            modifications == Get(change', "modifications", EmptyDict)
            hit == Matching(relationships, source, target)
            len == Len(relationships)
        IN  /\ classes' = classes
            /\ Len(relationships') = len
            /\ \A i \in (1..len) \ hit : relationships'[i] = relationships[i]
            /\ \A i \in hit :
                 /\ relationships'[i].source = relationships[i].source
                 /\ relationships'[i].target = relationships[i].target
                 /\ relationships'[i].confidence = relationships[i].confidence
                 /\ \A f \in {"type", "multiplicity_source", "multiplicity_target",
                              "label"} \ DOMAIN modifications :
                      relationships'[i][f] = relationships[i][f]
                 /\ k' = k + 1 =>
                      /\ \A f \in {"multiplicity_source", "multiplicity_target",
                                   "label"} \cap DOMAIN modifications :
                           relationships'[i][f] = modifications[f]
                      /\ "type" \in DOMAIN modifications =>
                           relationships'[i].type = RelationshipType(modifications.type)
    ]_vars

\* a modify_relationship change gave a stored relationship a new kind and label
\* and left its multiplicity and confidence as from_dict built them
C10_Witness ==
    /\ k >= 1
    /\ ChangeType(change) = "modify_relationship"
    /\ "label" \in DOMAIN change.modifications
    /\ \E i \in Matching(relationships, Get(change, "source", None),
                        Get(change, "target", None)) :
          /\ relationships[i].label = "extends"
          /\ relationships[i].type = "INHERITANCE"
          /\ relationships[i].multiplicity_target = "1..*"
          /\ relationships[i].confidence = 80
          /\ relationships[i].source # change.source

\* C11: within each class of the model no two attributes share a name
\* ignoring case, and no two methods share a name ignoring case.
UniqueMemberNames ==
    \A c \in 1..Len(classes) :
        /\ \A i, j \in 1..Len(classes[c].attributes) :
              Lower(classes[c].attributes[i].name) = Lower(classes[c].attributes[j].name)
                  => i = j
        /\ \A i, j \in 1..Len(classes[c].methods) :
              Lower(classes[c].methods[i].name) = Lower(classes[c].methods[j].name)
                  => i = j

-----------------------------------------------------------------------------
(* NLPProcessor: the cross-chunk entity merge                               *)
(*                                                                         *)
(* An NLPEntity is a record of its six fields.  The dict entity_map is the *)
(* sequence of its values in insertion order: one entity per key, the key  *)
(* of an entity being its lower-cased text.                                *)

MaxChunks == 2          \* most chunks of a text
MaxChunkEntities == 1   \* most entities extract_entities returns for a chunk

NLPEntity(txt, label, confidence, belongs_to) ==
    [text |-> txt, label |-> label, confidence |-> confidence,
     start |-> 0, end |-> Len(txt), belongs_to |-> belongs_to]

\* position of the key in entity_map, 0 when the key is not in the dict
KeyIndex(entity_map, key) ==
    IF \E j \in 1..Len(entity_map) : Lower(entity_map[j].text) = key
    THEN CHOOSE j \in 1..Len(entity_map) : Lower(entity_map[j].text) = key
    ELSE 0

\* as merge_entity, with >= for >: the later of two equally confident entities wins
merge_entity_keeps_last(entity_map, entity) ==
    LET j == KeyIndex(entity_map, Lower(entity.text))
    IN  IF j = 0 THEN Append(entity_map, entity)
        ELSE IF entity.confidence >= entity_map[j].confidence
             THEN [entity_map EXCEPT ![j] = entity]
             ELSE entity_map

\* the body of the loop of _merge_duplicate_entities
merge_entity(entity_map, entity) ==
    LET j == KeyIndex(entity_map, Lower(entity.text))
    IN  IF j = 0 THEN Append(entity_map, entity)
        ELSE IF entity.confidence > entity_map[j].confidence
             THEN [entity_map EXCEPT ![j] = entity]
             ELSE entity_map

RECURSIVE MergeLoop(_, _)
MergeLoop(entity_map, entities) ==
    IF entities = << >> THEN entity_map
    ELSE MergeLoop(merge_entity(entity_map, Head(entities)), Tail(entities))

_merge_duplicate_entities(entities) == MergeLoop(<< >>, entities)

\* entities as the extractors produce them: the rule-based extractor gives
\* every class 0.6 and every attribute 0.5, the model path gives attributes 0.8
MergeEntities ==
    {NLPEntity("User", "CLASS", 60, None),
     NLPEntity("user", "CLASS", 60, None),
     NLPEntity("User", "CLASS", 90, None),
     NLPEntity("user", "ATTRIBUTE", 50, None),
     NLPEntity("Account", "CLASS", 60, None),
     NLPEntity("Account", "CLASS", 85, None),
     NLPEntity("email", "ATTRIBUTE", 80, "User"),
     NLPEntity("email", "ATTRIBUTE", 50, None)}

NoResult == [entities |-> << >>, relationships |-> << >>]

InitEntities ==
    /\ classes = << >>
    /\ relationships = << >>
    /\ n = 0
    /\ k = 0
    /\ change = NoChange
    /\ result = "extracting"
    /\ returned = None
    /\ added = [calls |-> 0, names |-> {}, attributes |-> {}, methods |-> {}]
    /\ text = << >>
    /\ adapter = None
    /\ extracted = << >>
    /\ chunking = None
    /\ nlp_result = NoResult

\* one iteration of the loop of stage 2: the entities of the next chunk arrive
ExtendEntities ==
    LET
        ChunkEntityLists == SeqsUpTo(MergeEntities, MaxChunkEntities)
    IN
    /\ result = "extracting"
    /\ Len(extracted) < MaxChunks
    /\ \E entities \in ChunkEntityLists : extracted' = Append(extracted, entities)
    /\ UNCHANGED <<classes, relationships, change, k, n, result, returned, added,
                   text, adapter, nlp_result, chunking>>

\* nlp_result.entities = self._merge_duplicate_entities(all_entities)
MergeDuplicateEntities ==
    /\ result = "extracting"
    /\ nlp_result' = [nlp_result EXCEPT
                         !.entities = _merge_duplicate_entities(Flatten(extracted))]
    /\ result' = "merged"
    /\ UNCHANGED <<classes, relationships, change, k, n, returned, added,
                   text, adapter, extracted, chunking>>

NextEntities == ExtendEntities \/ MergeDuplicateEntities

SpecEntities == InitEntities /\ [][NextEntities]_vars

\* the entities of the list whose lower-cased text is key
Group(entities, key) == {i \in 1..Len(entities) : Lower(entities[i].text) = key}

\* the first entity of highest confidence among those of the group
Best(entities, key) ==
    CHOOSE i \in Group(entities, key) :
        \A j \in Group(entities, key) :
            \/ entities[j].confidence < entities[i].confidence
            \/ entities[j].confidence = entities[i].confidence /\ i <= j

\* C14: _merge_duplicate_entities returns exactly one entity per lower-cased
\* text of its input, and that entity is the first of the highest confidence
\* among the input entities of that text.
MergeKeepsBest ==
    result = "merged" =>
        LET all_entities == Flatten(extracted)
            merged == nlp_result.entities
            keys == {Lower(all_entities[i].text) : i \in 1..Len(all_entities)}
        IN  /\ \A j \in 1..Len(merged) : Lower(merged[j].text) \in keys
            /\ \A key \in keys :
                  /\ Cardinality(Group(merged, key)) = 1
                  /\ \A j \in Group(merged, key) :
                        merged[j] = all_entities[Best(all_entities, key)]

\* a later entity of the same text and the same confidence as the first was dropped
C14_Witness ==
    /\ result = "merged"
    /\ \E i, j \in 1..Len(Flatten(extracted)) :
          /\ i < j
          /\ Flatten(extracted)[i] # Flatten(extracted)[j]
          /\ Lower(Flatten(extracted)[i].text) = Lower(Flatten(extracted)[j].text)
          /\ Flatten(extracted)[i].confidence = Flatten(extracted)[j].confidence
    /\ Len(nlp_result.entities) = 1

\* what the claim compares: casing, label, confidence and owner hint
Surface(entities) ==
    {[text |-> entities[i].text, label |-> entities[i].label,
      confidence |-> entities[i].confidence, belongs_to |-> entities[i].belongs_to] :
        i \in 1..Len(entities)}

\* C15: the merge gives the same set of entities for every order in which the
\* per-chunk results arrive.
MergeOrderIndependent ==
    result = "merged" =>
        \A p \in Permutations(1..Len(extracted)) :
            Surface(_merge_duplicate_entities(
                        Flatten([i \in 1..Len(extracted) |-> extracted[p[i]]])))
                = Surface(nlp_result.entities)

-----------------------------------------------------------------------------
(* NLPProcessor.build_uml_model *)

MaxEntities == 3    \* most entities of an NLP result given to build_uml_model
MaxNlpRels == 2     \* most relationships of an NLP result

NLPRelationship(source, target, relationship_type, confidence, context) ==
    [source |-> source, target |-> target, relationship_type |-> relationship_type,
     confidence |-> confidence, context |-> context]

get_entities_by_label(nr, label) == SelectSeq(nr.entities, LAMBDA e : e.label = label)
get_classes(nr) == get_entities_by_label(nr, "CLASS")
get_attributes(nr) == get_entities_by_label(nr, "ATTRIBUTE")
get_methods(nr) == get_entities_by_label(nr, "METHOD")

UMLClass(name, confidence) ==
    [name |-> name, attributes |-> << >>, methods |-> << >>,
     position |-> [x |-> 0, y |-> 0], confidence |-> confidence]

\* list.sort(key=confidence, reverse=True) is stable: of two classes of equal
\* confidence the one that was first stays first
RECURSIVE SortByConfidence(_)
SortByConfidence(cs) ==
    IF cs = << >> THEN << >>
    ELSE LET sorted == SortByConfidence(SubSeq(cs, 1, Len(cs) - 1))
             c == cs[Len(cs)]
             pos == Cardinality({i \in 1..Len(sorted) :
                                    sorted[i].confidence >= c.confidence})
         IN  SubSeq(sorted, 1, pos) \o <<c>> \o SubSeq(sorted, pos + 1, Len(sorted))

\* as _build_classes_from_entities, without the sort by confidence
build_classes_in_input_order(class_entities) ==
    LET kept == SelectSeq(class_entities, LAMBDA e : e.label = "CLASS")
    IN  [i \in 1..Len(kept) |-> UMLClass(kept[i].text, kept[i].confidence)]

_build_classes_from_entities(class_entities) ==
    LET kept == SelectSeq(class_entities, LAMBDA e : e.label = "CLASS")
    IN  SortByConfidence([i \in 1..Len(kept) |->
                             UMLClass(kept[i].text, kept[i].confidence)])

\* `needle in hay` on the lower-cased class names and entity texts that occur
IsSubstring(needle, hay) ==
    \/ needle = hay
    \/ needle = "user" /\ hay = "user_id"

\* index of the class returned, 0 for None (_infer_method_class is the same code)
_infer_attribute_class(entity, cs) ==
    LET
        \* max(classes, key=confidence): the first class of the highest confidence
        MaxConfidence(xs) ==
            CHOOSE i \in 1..Len(xs) :
                /\ \A j \in 1..Len(xs) : xs[j].confidence <= xs[i].confidence
                /\ \A j \in 1..(i-1) : xs[j].confidence < xs[i].confidence
    IN
    IF \E i \in 1..Len(cs) : IsSubstring(Lower(cs[i].name), Lower(entity.text))
    THEN CHOOSE i \in 1..Len(cs) :
            /\ IsSubstring(Lower(cs[i].name), Lower(entity.text))
            /\ \A h \in 1..(i-1) : ~IsSubstring(Lower(cs[h].name), Lower(entity.text))
    ELSE IF cs # << >> THEN MaxConfidence(cs)
    ELSE 0

_infer_method_class(entity, cs) == _infer_attribute_class(entity, cs)

\* Attribute and Method are dataclasses without a field `confidence`: the calls
\* Attribute(name=..., type=..., confidence=...) and Method(..., confidence=...)
\* raise TypeError
MemberConstructorRaises == TRUE

\* keyword tables of _infer_attribute_type on the attribute texts that occur
_infer_attribute_type(attr_name) ==
    IF attr_name = "user_id" THEN "Integer" ELSE "String"

\* the class an attribute entity is attached to, 0 for none
AttributeTarget(entity, cs) ==
    LET hinted == IF entity.belongs_to \notin {None, ""}
                  THEN find_class(cs, entity.belongs_to) ELSE 0
    IN  IF hinted # 0 THEN hinted ELSE _infer_attribute_class(entity, cs)

RECURSIVE _add_attributes_to_classes(_, _)
_add_attributes_to_classes(cs, attribute_entities) ==
    IF attribute_entities = << >> THEN [raised |-> FALSE, classes |-> cs]
    ELSE LET entity == Head(attribute_entities)
             target == AttributeTarget(entity, cs)
         IN  IF target = 0
             THEN _add_attributes_to_classes(cs, Tail(attribute_entities))
             ELSE IF MemberConstructorRaises
             THEN [raised |-> TRUE, classes |-> cs]
             ELSE _add_attributes_to_classes(
                      [cs EXCEPT ![target].attributes =
                          Append(@, [name |-> entity.text,
                                     type |-> _infer_attribute_type(entity.text),
                                     visibility |-> "+", is_static |-> FALSE])],
                      Tail(attribute_entities))

\* the parameters and the return type are those the keyword tables of
\* _infer_method_parameters and _infer_method_return_type give for "login"
RECURSIVE _add_methods_to_classes(_, _)
_add_methods_to_classes(cs, method_entities) ==
    IF method_entities = << >> THEN [raised |-> FALSE, classes |-> cs]
    ELSE LET entity == Head(method_entities)
             target == _infer_method_class(entity, cs)
         IN  IF target = 0
             THEN _add_methods_to_classes(cs, Tail(method_entities))
             ELSE IF MemberConstructorRaises
             THEN [raised |-> TRUE, classes |-> cs]
             ELSE _add_methods_to_classes(
                      [cs EXCEPT ![target].methods =
                          Append(@, [name |-> entity.text, parameters |-> << >>,
                                     return_type |-> "void",
                                     visibility |-> "+", is_static |-> FALSE])],
                      Tail(method_entities))

\* type_mapping.get(nlp_rel_type, RelationshipType.ASSOCIATION)
_map_relationship_type(nlp_rel_type) ==
    IF RelationshipType(nlp_rel_type) = "ValueError" THEN "ASSOCIATION"
    ELSE RelationshipType(nlp_rel_type)

\* `indicator in context.lower()` on the contexts that occur
Occurs(indicator, context) ==
    \/ indicator = "many" /\ context = "User has many Account"
    \/ indicator = "optional" /\ context = "user uses optional Account"

_infer_multiplicity(context, side) ==
    IF \E w \in {"many", "multiple", "various", "list"} : Occurs(w, context) THEN "1..*"
    ELSE IF \E w \in {"optional", "may have", "can have"} : Occurs(w, context) THEN "0..1"
    ELSE IF \E w \in {"collection", "group", "set"} : Occurs(w, context) THEN "1..*"
    ELSE "1"

LongContext == "the User record keeps a reference to the Account that owns it"

RelationshipLabel(context) ==
    LET
        \* context[:50] on the one context that is longer than 50 characters
        First50(s) ==
            IF s = LongContext
            THEN "the User record keeps a reference to the Account t"
            ELSE s
    IN
    IF Len(context) > 50 THEN First50(context) \o "..." ELSE context

\* the relationships whose two ends are classes of the model, ends renamed to
\* the names of the classes found
_build_relationships(nlp_relationships, cs) ==
    LET found == SelectSeq(nlp_relationships,
                           LAMBDA r : find_class(cs, r.source) # 0
                                      /\ find_class(cs, r.target) # 0)
    IN  [i \in 1..Len(found) |->
            [source |-> cs[find_class(cs, found[i].source)].name,
             target |-> cs[find_class(cs, found[i].target)].name,
             type |-> _map_relationship_type(found[i].relationship_type),
             multiplicity_source |-> _infer_multiplicity(found[i].context, "source"),
             multiplicity_target |-> _infer_multiplicity(found[i].context, "target"),
             label |-> RelationshipLabel(found[i].context),
             confidence |-> found[i].confidence]]

RECURSIVE AddBuiltClasses(_, _)
AddBuiltClasses(cs, new) ==
    IF new = << >> THEN cs ELSE AddBuiltClasses(add_class(cs, Head(new)), Tail(new))

RECURSIVE AddBuiltRelationships(_, _)
AddBuiltRelationships(rs, new) ==
    IF new = << >> THEN rs
    ELSE AddBuiltRelationships(add_relationship(rs, Head(new)), Tail(new))

\* the elements of a member list whose lower-cased name did not occur before
DedupByName(members) ==
    LET keep == {i \in 1..Len(members) :
                    \A h \in 1..(i-1) : Lower(members[h].name) # Lower(members[i].name)}
        Index(j) == CHOOSE i \in keep : Cardinality({h \in keep : h <= i}) = j
    IN  [j \in 1..Cardinality(keep) |-> members[Index(j)]]

\* _post_process_uml_model without the removal of self-references
self_references_kept(rs) == rs

\* rel.source.lower() != rel.target.lower()
without_self_references(rs) ==
    SelectSeq(rs, LAMBDA rel : Lower(rel.source) # Lower(rel.target))

\* position of a lower-cased class name in the order of Python strings
NameRank(s) ==
    CASE s = "account" -> 1
      [] s = "newclass" -> 2
      [] s = "user" -> 3

\* _post_process_uml_model leaving the classes in the order of the build
classes_in_build_order(cs) == cs

\* list.sort(key=name.lower()), stable
RECURSIVE SortByName(_)
SortByName(cs) ==
    IF cs = << >> THEN << >>
    ELSE LET sorted == SortByName(SubSeq(cs, 1, Len(cs) - 1))
             c == cs[Len(cs)]
             pos == Cardinality({i \in 1..Len(sorted) :
                        NameRank(Lower(sorted[i].name)) <= NameRank(Lower(c.name))})
         IN  SubSeq(sorted, 1, pos) \o <<c>> \o SubSeq(sorted, pos + 1, Len(sorted))

\* (source.lower(), target.lower()) <= (source.lower(), target.lower()) on tuples
PairLeq(a, b) ==
    \/ NameRank(Lower(a.source)) < NameRank(Lower(b.source))
    \/ /\ NameRank(Lower(a.source)) = NameRank(Lower(b.source))
       /\ NameRank(Lower(a.target)) <= NameRank(Lower(b.target))

\* list.sort(key=(source.lower(), target.lower())), stable
RECURSIVE SortByPair(_)
SortByPair(rs) ==
    IF rs = << >> THEN << >>
    ELSE LET sorted == SortByPair(SubSeq(rs, 1, Len(rs) - 1))
             r == rs[Len(rs)]
             pos == Cardinality({i \in 1..Len(sorted) : PairLeq(sorted[i], r)})
         IN  SubSeq(sorted, 1, pos) \o <<r>> \o SubSeq(sorted, pos + 1, Len(sorted))

_post_process_uml_model(cs, rs) ==
    LET deduped == [i \in 1..Len(cs) |->
                       [cs[i] EXCEPT !.attributes = DedupByName(@),
                                     !.methods = DedupByName(@)]]
    IN  [classes |-> SortByName(deduped),
         relationships |-> SortByPair(without_self_references(rs))]

\* returns the model, or raised when the construction of a member raises
build_uml_model(nr) ==
    LET cs == AddBuiltClasses(<< >>, _build_classes_from_entities(get_classes(nr)))
        attributed == _add_attributes_to_classes(cs, get_attributes(nr))
        completed == _add_methods_to_classes(attributed.classes, get_methods(nr))
        rs == AddBuiltRelationships(
                  << >>, _build_relationships(nr.relationships, completed.classes))
        post == _post_process_uml_model(completed.classes, rs)
    IN  IF attributed.raised THEN [raised |-> TRUE, classes |-> << >>,
                                   relationships |-> << >>]
        ELSE IF completed.raised THEN [raised |-> TRUE, classes |-> << >>,
                                       relationships |-> << >>]
        ELSE [raised |-> FALSE, classes |-> post.classes,
              relationships |-> post.relationships]

InitBuild ==
    LET
        \* relationships of an NLP result
        BuildRelationships ==
            {NLPRelationship("User", "Account", "composition", 70, "User has many Account"),
             NLPRelationship("user", "Account", "uses", 80, "user uses optional Account"),
             NLPRelationship("User", "user", "composition", 70, "User has Account"),
             NLPRelationship("Account", "User", "inheritance", 80, LongContext)}
        \* entities of an NLP result
        BuildEntities ==
            {NLPEntity("User", "CLASS", 60, None),
             NLPEntity("user", "CLASS", 60, None),
             NLPEntity("user", "CLASS", 90, None),
             NLPEntity("Account", "CLASS", 60, None),
             NLPEntity("user_id", "ATTRIBUTE", 80, "Account"),
             NLPEntity("login", "METHOD", 70, None)}
    IN
    /\ classes = << >>
    /\ relationships = << >>
    /\ n = 0
    /\ k = 0
    /\ change = NoChange
    /\ result = "idle"
    /\ returned = None
    /\ added = [calls |-> 0, names |-> {}, attributes |-> {}, methods |-> {}]
    /\ text = << >>
    /\ adapter = None
    /\ extracted = << >>
    /\ chunking = None
    /\ \E es \in SeqsUpTo(BuildEntities, MaxEntities),
          rs \in SeqsUpTo(BuildRelationships, MaxNlpRels) :
            nlp_result = [entities |-> es, relationships |-> rs]

\* uml_model = self.build_uml_model(nlp_result)
BuildUmlModel ==
    /\ result = "idle"
    /\ LET out == build_uml_model(nlp_result)
       IN  /\ classes' = out.classes
           /\ relationships' = out.relationships
           /\ result' = IF out.raised THEN "TypeError" ELSE "built"
    /\ UNCHANGED <<change, k, n, returned, added, nlp_vars>>

NextBuild == BuildUmlModel

SpecBuild == InitBuild /\ [][NextBuild]_vars

\* C12: a model returned by build_uml_model has no relationship whose source
\* and target are equal ignoring case.
NoSelfReference ==
    result = "built" =>
        \A i \in 1..Len(relationships) :
            Lower(relationships[i].source) # Lower(relationships[i].target)

\* the NLP result held a relationship between two spellings of a class of the model
C12_Witness ==
    /\ result = "built"
    /\ \E i \in 1..Len(nlp_result.relationships) :
          /\ Lower(nlp_result.relationships[i].source)
                = Lower(nlp_result.relationships[i].target)
          /\ find_class(classes, nlp_result.relationships[i].source) # 0
    /\ relationships # << >>

\* C13: build_uml_model yields exactly one class for each lower-cased text of
\* the CLASS entities, and that class has the text and the confidence of the
\* first entity of highest confidence of that text.
OneClassPerGroup ==
    result = "built" =>
        LET class_entities == get_classes(nlp_result)
            keys == {Lower(class_entities[i].text) : i \in 1..Len(class_entities)}
        IN  /\ \A c \in 1..Len(classes) : Lower(classes[c].name) \in keys
            /\ \A key \in keys :
                  /\ Cardinality({c \in 1..Len(classes) : Lower(classes[c].name) = key}) = 1
                  /\ \A c \in 1..Len(classes) :
                        Lower(classes[c].name) = key =>
                            /\ classes[c].name = class_entities[Best(class_entities, key)].text
                            /\ classes[c].confidence
                                  = class_entities[Best(class_entities, key)].confidence

\* the entity kept for a text is not the first of its group
C13_Witness ==
    /\ result = "built"
    /\ \E i, j \in 1..Len(nlp_result.entities) :
          /\ i < j
          /\ Lower(nlp_result.entities[i].text) = Lower(nlp_result.entities[j].text)
          /\ nlp_result.entities[i].text # nlp_result.entities[j].text
          /\ nlp_result.entities[i].confidence < nlp_result.entities[j].confidence
          /\ \E c \in 1..Len(classes) : classes[c].name = nlp_result.entities[j].text

-----------------------------------------------------------------------------
(* BERTExtractor and SpaCyAnalyzer                                          *)
(*                                                                         *)
(* A text is the sequence of its words; the Python string is the words     *)
(* joined by single spaces.  The words hold no apostrophe, so the patterns  *)
(* that need one (r"(\w+)'s\s+(\w+)") have no match.  A regular expression  *)
(* over such a text matches whole words, and re.finditer yields the         *)
(* leftmost matches that do not overlap.                                    *)

MaxWords == 3    \* most words of a text given to an extractor

AdapterTexts ==
    LET
        LongerTexts ==
            {<<"Account", "is", "a", "User">>,
             <<"API", "uses", "user_id">>,
             <<"userName", "of", "User", "has", "Account">>,
             <<"User", "contain", "Account">>,
             <<"Account", "extends", "User", "is", "part", "of", "API">>}
        Words == {"User", "user", "Account", "has", "of"}
    IN
    SeqsUpTo(Words, MaxWords) \cup LongerTexts

\* offset of the i-th word in the string
RECURSIVE Offset(_, _)
Offset(t, i) == IF i = 1 THEN 0 ELSE Offset(t, i - 1) + Len(t[i - 1]) + 1

\* match.group() of a match on the words i..j
Matched(t, i, j) == Join(SubSeq(t, i, j), " ")

class_patterns == <<"capitalized", "camelCase", "snake_case", "acronym">>

\* the CLASS entities one class pattern gives: one per matching word longer than 2
ClassMatches(t, shape) ==
    LET
        \* the class patterns of _rule_based_extraction a word matches
        WordShapes(w) ==
            (IF w \in {"User", "Account", "API"} THEN {"capitalized"} ELSE {})
            \cup (IF w \in {"userName", "API"} THEN {"camelCase"} ELSE {})
            \cup (IF w \in {"user_id"} THEN {"snake_case"} ELSE {})
            \cup (IF w \in {"API"} THEN {"acronym"} ELSE {})
    IN
    LET hits == SelectSeq([i \in 1..Len(t) |-> i],
                          LAMBDA i : shape \in WordShapes(t[i]) /\ Len(t[i]) > 2)
    IN  [h \in 1..Len(hits) |->
            [text |-> t[hits[h]], label |-> "CLASS", confidence |-> 60,
             start |-> Offset(t, hits[h]),
             end |-> Offset(t, hits[h]) + Len(t[hits[h]]),
             belongs_to |-> None]]

\* matches of r"\b(\w+)\s+(of|for|in)\s+(\w+)\b" from word i on
RECURSIVE AttributeMatches(_, _)
AttributeMatches(t, i) ==
    IF i + 2 > Len(t) THEN << >>
    ELSE IF Lower(t[i + 1]) \in {"of", "for", "in"}
    THEN <<[text |-> IF t[i] # "user" THEN t[i] ELSE t[i + 1],
            label |-> "ATTRIBUTE", confidence |-> 50,
            start |-> Offset(t, i),
            end |-> Offset(t, i + 2) + Len(t[i + 2]),
            belongs_to |-> None]>> \o AttributeMatches(t, i + 3)
    ELSE AttributeMatches(t, i + 1)

_rule_based_extraction(t) ==
    Flatten([p \in 1..Len(class_patterns) |-> ClassMatches(t, class_patterns[p])])
        \o AttributeMatches(t, 1)

\* the patterns of _pattern_based_extraction in order, without the two that
\* give no relationship on these texts: the possessive, and the one of four
\* groups, whose matches are skipped.  `verbs` are the alternatives of the
\* middle of the pattern, `groups` the number of groups.
patterns ==
    <<[verbs |-> {<<"contains">>, <<"contain">>, <<"has">>, <<"have">>, <<"owns">>,
                  <<"own">>, <<"manages">>, <<"manage">>},
       groups |-> 3, rel_type |-> "composition"],
      [verbs |-> {<<"is", "part", "of">>}, groups |-> 2, rel_type |-> "composition"],
      [verbs |-> {<<"uses">>, <<"use">>, <<"references">>, <<"reference">>,
                  <<"connects", "to">>, <<"connect", "to">>, <<"links", "to">>,
                  <<"link", "to">>},
       groups |-> 3, rel_type |-> "association"],
      [verbs |-> {<<"talks", "to">>, <<"talk", "to">>, <<"communicates", "with">>,
                  <<"communicate", "with">>},
       groups |-> 3, rel_type |-> "association"],
      [verbs |-> {<<"extends">>, <<"extend">>, <<"inherits", "from">>,
                  <<"inherit", "from">>, <<"is", "a", "type", "of">>},
       groups |-> 3, rel_type |-> "inheritance"],
      [verbs |-> {<<"is", "a">>}, groups |-> 2, rel_type |-> "inheritance"],
      [verbs |-> {<<"has", "multiple">>, <<"collection", "of">>, <<"group", "of">>},
       groups |-> 3, rel_type |-> "aggregation"]>>

\* the middle groups for which a match of three groups gives source and target
SourceTargetVerbs ==
    {"contains", "has", "have", "owns", "manages", "uses", "references", "extends",
     "inherits", "connects", "links"}

\* the alternatives of the pattern that match after word i
VerbsAt(t, i, pattern) ==
    {v \in pattern.verbs :
        /\ i + Len(v) + 1 <= Len(t)
        /\ \A h \in 1..Len(v) : Lower(t[i + h]) = v[h]}

\* the relationships the matches of one pattern give, from word i on
RECURSIVE PatternMatches(_, _, _, _)
PatternMatches(t, i, pattern, entity_names) ==
    IF i > Len(t) THEN << >>
    ELSE IF VerbsAt(t, i, pattern) = {} THEN PatternMatches(t, i + 1, pattern, entity_names)
    ELSE LET v == CHOOSE w \in VerbsAt(t, i, pattern) : TRUE
             j == i + Len(v) + 1
             ends_known == \/ pattern.groups = 2
                           \/ Join(v, " ") \in SourceTargetVerbs
         IN  (IF /\ ends_known
                 /\ Lower(t[i]) \in entity_names
                 /\ Lower(t[j]) \in entity_names
              THEN <<NLPRelationship(t[i], t[j], pattern.rel_type, 70, Matched(t, i, j))>>
              ELSE << >>)
             \o PatternMatches(t, j + 1, pattern, entity_names)

_pattern_based_extraction(t, entities) ==
    IF entities = << >> THEN << >>
    ELSE LET entity_names == {Lower(entities[i].text) : i \in 1..Len(entities)}
         IN  Flatten([p \in 1..Len(patterns) |->
                         PatternMatches(t, 1, patterns[p], entity_names)])

\* what the try block of extract_entities does: the external model or the
\* post-processing of its output throws, or a list of entities results
NerOutcomes ==
    {[throws |-> TRUE, value |-> << >>],
     [throws |-> FALSE, value |-> << >>],
     [throws |-> FALSE, value |-> <<NLPEntity("User", "CLASS", 95, None)>>],
     [throws |-> FALSE, value |-> <<NLPEntity("User", "CLASS", 95, None),
                                    NLPEntity("Account", "CLASS", 88, None)>>]}

\* what the try block of extract_relationships does
NlpOutcomes ==
    {[throws |-> TRUE, value |-> << >>],
     [throws |-> FALSE, value |-> << >>],
     [throws |-> FALSE,
      value |-> <<NLPRelationship("User", "Account", "association", 80,
                                  "User has Account")>>]}

\* as extract_entities, without the except clause
extract_entities_propagates(ad, t, outcome) ==
    IF ad.ner_pipeline = None
    THEN [raised |-> FALSE, value |-> _rule_based_extraction(t)]
    ELSE IF outcome.throws THEN [raised |-> TRUE, value |-> << >>]
    ELSE [raised |-> FALSE, value |-> outcome.value]

extract_entities(ad, t, outcome) ==
    IF ad.ner_pipeline = None
    THEN [raised |-> FALSE, value |-> _rule_based_extraction(t)]
    ELSE IF outcome.throws
    THEN [raised |-> FALSE, value |-> _rule_based_extraction(t)]
    ELSE [raised |-> FALSE, value |-> outcome.value]

extract_relationships(ad, t, entities, outcome) ==
    IF ad.nlp = None
    THEN [raised |-> FALSE, value |-> _pattern_based_extraction(t, entities)]
    ELSE IF outcome.throws
    THEN [raised |-> FALSE, value |-> _pattern_based_extraction(t, entities)]
    ELSE [raised |-> FALSE, value |-> outcome.value]

\* the handles after _load_model, and the calls of the models that threw
AdapterStates ==
    {[ner_pipeline |-> p, nlp |-> m, threw |-> {}] :
        p \in {None, "pipeline"}, m \in {None, "nlp"}}

InitAdapters ==
    /\ classes = << >>
    /\ relationships = << >>
    /\ n = 0
    /\ k = 0
    /\ change = NoChange
    /\ result = "idle"
    /\ returned = None
    /\ added = [calls |-> 0, names |-> {}, attributes |-> {}, methods |-> {}]
    /\ text \in AdapterTexts
    /\ adapter \in AdapterStates
    /\ extracted = << >>
    /\ chunking = None
    /\ nlp_result = NoResult

\* a call of BERTExtractor.extract_entities on the text
ExtractEntities ==
    /\ result = "idle"
    /\ \E outcome \in NerOutcomes :
          LET out == extract_entities(adapter, text, outcome)
          IN  /\ result' = IF out.raised THEN "raised" ELSE "entities"
              /\ nlp_result' = [nlp_result EXCEPT !.entities = out.value]
              /\ adapter' = IF adapter.ner_pipeline # None /\ outcome.throws
                            THEN [adapter EXCEPT !.threw = @ \cup {"ner_pipeline"}]
                            ELSE adapter
    /\ UNCHANGED <<classes, relationships, change, k, n, returned, added,
                   text, extracted, chunking>>

\* a call of SpaCyAnalyzer.extract_relationships on the text and the entities
ExtractRelationships ==
    /\ result = "entities"
    /\ \E outcome \in NlpOutcomes :
          LET out == extract_relationships(adapter, text, nlp_result.entities, outcome)
          IN  /\ result' = IF out.raised THEN "raised" ELSE "relationships"
              /\ nlp_result' = [nlp_result EXCEPT !.relationships = out.value]
              /\ adapter' = IF adapter.nlp # None /\ outcome.throws
                            THEN [adapter EXCEPT !.threw = @ \cup {"nlp"}]
                            ELSE adapter
    /\ UNCHANGED <<classes, relationships, change, k, n, returned, added,
                   text, extracted, chunking>>

NextAdapters == ExtractEntities \/ ExtractRelationships

SpecAdapters == InitAdapters /\ [][NextAdapters]_vars

\* C17: extract_entities and extract_relationships do not raise, and when the
\* model was never loaded or its call threw, each returns what its rule-based
\* extractor gives for the same input.
FallbackOnModelFailure ==
    /\ result # "raised"
    /\ (result \in {"entities", "relationships"}
           /\ (adapter.ner_pipeline = None \/ "ner_pipeline" \in adapter.threw))
          => nlp_result.entities = _rule_based_extraction(text)
    /\ (result = "relationships" /\ (adapter.nlp = None \/ "nlp" \in adapter.threw))
          => nlp_result.relationships
                = _pattern_based_extraction(text, nlp_result.entities)

\* both model calls threw and both fall-backs found something
C17_Witness ==
    /\ result = "relationships"
    /\ adapter.threw = {"ner_pipeline", "nlp"}
    /\ nlp_result.entities # << >>
    /\ nlp_result.relationships # << >>

-----------------------------------------------------------------------------
(* TextPreprocessor, NLPProcessor.process_requirements and the route        *)
(* /extract                                                                 *)

MinTextLength == 50        \* len(text) < 50 is rejected
MaxTextLength == 10000     \* len(text) > 10000 is rejected
ChunkThreshold == 400      \* len(cleaned_text) > 400 is chunked

\* len(text)
TextLength(t) == Len(Join(t, " "))

\* preprocess_text returns "" for the empty text.  For any other text
\* _clean_text returns a string and the first iteration of the loop of
\* _preserve_technical_terms calls text.replace(compound, normalized,
\* flags=re.IGNORECASE): str.replace takes no keyword arguments, TypeError.
preprocess_text(t) ==
    IF t = << >> THEN [raised |-> FALSE, value |-> << >>, message |-> ""]
    ELSE [raised |-> TRUE, value |-> << >>,
          message |-> "str.replace() takes no keyword arguments"]

Raised(message) ==
    [raised |-> TRUE, message |-> "NLP processing failed: " \o message,
     classes |-> << >>, relationships |-> << >>]

\* the cleaned text of every text of RequestTexts is within ChunkThreshold:
\* chunks = [cleaned_text].  Whatever is raised inside the body is caught at the
\* end of it and raised again as Exception("NLP processing failed: ...").
process_requirements(t, ad, ner, nlp, fault) ==
    LET
        \* chunk.find(s) != -1 on the entity texts that occur
        ChunkFinds(chunk, s) ==
            \/ s = ""
            \/ \E i \in 1..Len(chunk) :
                  \/ chunk[i] = s
                  \/ s = "user" /\ chunk[i] \in {"user_id", "userName"}
    IN
    LET cleaned == preprocess_text(t)
        chunk == cleaned.value
        entities == extract_entities(ad, chunk, ner)
        merged == _merge_duplicate_entities(entities.value)
        chunk_entities == SelectSeq(merged, LAMBDA e : ChunkFinds(chunk, e.text))
        rels == extract_relationships(ad, chunk, chunk_entities, nlp)
        built == build_uml_model([entities |-> merged, relationships |-> rels.value])
    IN  IF cleaned.raised THEN Raised(cleaned.message)
        ELSE IF fault = "extract_entities" \/ entities.raised
        THEN Raised("extract_entities")
        ELSE IF fault = "extract_relationships" \/ rels.raised
        THEN Raised("extract_relationships")
        ELSE IF built.raised
        THEN Raised("__init__() got an unexpected keyword argument 'confidence'")
        ELSE [raised |-> FALSE, message |-> "", classes |-> built.classes,
              relationships |-> built.relationships]

\* the response of extract_uml: the code of the error, or "OK".  The error dict
\* of generate_diagram has no key 'code': KeyError, answered as PROCESSING_ERROR.
extract_uml(t, ad, ner, nlp) ==
    LET out == process_requirements(t, ad, ner, nlp, None)
    IN  IF t = << >> THEN "MISSING_TEXT"
        ELSE IF TextLength(t) < MinTextLength THEN "TEXT_TOO_SHORT"
        ELSE IF TextLength(t) > MaxTextLength THEN "TEXT_TOO_LONG"
        ELSE IF out.raised THEN "PROCESSING_ERROR"
        ELSE IF generate_diagram(out.classes, out.relationships) = "generation_failed"
        THEN "PROCESSING_ERROR"
        ELSE "OK"

InitPipeline ==
    LET
        \* every text is free of surrounding whitespace (text.strip() leaves it as it
        \* is) and no longer than ChunkThreshold
        RequestTexts ==
            LET
                Prose57 == <<"Account", "has", "User", "of", "Account", "is", "a", "User", "of",
                             "API", "uses", "Account">>
            IN
            LET
                Prose50 == <<"Account", "has", "User", "of", "Account", "is", "a", "User", "has",
                             "API", "uses">>
            IN
            LET
                \* texts of 49, 50 and 57 characters
                Prose49 == <<"Account", "has", "User", "of", "Account", "is", "a", "User", "of",
                             "API", "uses">>
            IN
                        AdapterTexts \cup {Prose49, Prose50, Prose57}
    IN
    /\ classes = << >>
    /\ relationships = << >>
    /\ n = 0
    /\ k = 0
    /\ change = NoChange
    /\ result = "idle"
    /\ returned = None
    /\ added = [calls |-> 0, names |-> {}, attributes |-> {}, methods |-> {}]
    /\ text \in RequestTexts
    /\ adapter \in AdapterStates
    /\ extracted = << >>
    /\ chunking = None
    /\ nlp_result = NoResult

\* POST /extract with the text
ExtractUml ==
    /\ result = "idle"
    /\ \E ner \in NerOutcomes, nlp \in NlpOutcomes :
          result' = extract_uml(text, adapter, ner, nlp)
    /\ UNCHANGED <<classes, relationships, change, k, n, returned, added, nlp_vars>>

\* a call of process_requirements on the text: `returned` is the message of the
\* exception raised, None when the model is returned
ProcessRequirements ==
    LET
        \* the call of an adapter that raises, None when both return as the adapters
        \* of the source do
        AdapterFaults == {None, "extract_entities", "extract_relationships"}
    IN
    /\ result = "idle"
    /\ \E ner \in NerOutcomes, nlp \in NlpOutcomes, fault \in AdapterFaults :
          LET out == process_requirements(text, adapter, ner, nlp, fault)
          IN  /\ result' = IF out.raised THEN "raised" ELSE "model"
              /\ returned' = IF out.raised THEN out.message ELSE None
              /\ classes' = out.classes
              /\ relationships' = out.relationships
    /\ UNCHANGED <<change, k, n, added, nlp_vars>>

NextPipeline == ExtractUml \/ ProcessRequirements

SpecPipeline == InitPipeline /\ [][NextPipeline]_vars

\* the messages of the exceptions that surface when an adapter call raised
AdapterMessages ==
    {"NLP processing failed: extract_entities",
     "NLP processing failed: extract_relationships"}

\* C16: process_requirements raises only what the normalization raised: when
\* an adapter call raises for a chunk, a model is returned all the same.
AdapterFailureContained ==
    result = "raised"
        => returned = "NLP processing failed: str.replace() takes no keyword arguments"

\* C18: a text of fewer than 50 characters is rejected before the pipeline
\* runs, and on a text of 50 to 10000 characters process_requirements, with
\* adapters that do not raise, returns a model, the models loaded or not.
ExtractionNeverRaises ==
    LET
        ResponseCodes ==
            {"MISSING_TEXT", "TEXT_TOO_SHORT", "TEXT_TOO_LONG", "PROCESSING_ERROR", "OK"}
    IN
    /\ (result \in ResponseCodes /\ TextLength(text) < MinTextLength)
          => result \in {"MISSING_TEXT", "TEXT_TOO_SHORT"}
    /\ (result \in {"model", "raised"}
           /\ returned \notin AdapterMessages
           /\ TextLength(text) >= MinTextLength
           /\ TextLength(text) <= MaxTextLength)
          => result = "model"

-----------------------------------------------------------------------------
(* MermaidConverter.validate_mermaid_syntax                                 *)
(*                                                                         *)
(* A diagram source is its text with what the checks read from it: whether *)
(* it starts with the directive, the numbers of "{" and of "}", and the     *)
(* connector of every line that has one.  The names, types and labels of    *)
(* the models hold no brace and no hyphen, so the rendering of a model has  *)
(* one "{" and one "}" per class, and a line holds a symbol exactly when    *)
(* its connector does.                                                      *)

Rendered(cs, rs) ==
    [code |-> convert_to_mermaid(cs, rs), directive |-> TRUE,
     open_braces |-> Len(cs), close_braces |-> Len(cs),
     connectors |-> IF cs = << >> THEN << >>
                    ELSE [i \in 1..Len(rs) |->
                             [line |-> format_mermaid_relationship(rs[i]),
                              connector |-> relationship_symbols(rs[i].type)]]]

\* the source with a line "{" or "}" added, with its first line removed, or
\* with a relationship line added whose connector is "..>" or "<--"
Edited(src, edit) ==
    CASE edit = "none" -> src
      [] edit = "open_brace" ->
            [src EXCEPT !.code = @ \o "\n{", !.open_braces = @ + 1]
      [] edit = "close_brace" ->
            [src EXCEPT !.code = @ \o "\n}", !.close_braces = @ + 1]
      [] edit = "no_directive" ->
            [src EXCEPT !.code = "%% " \o @, !.directive = FALSE]
      [] edit = "dotted_connector" ->
            [src EXCEPT !.code = @ \o "\n    User ..> Account",
                        !.connectors = Append(@, [line |-> "User ..> Account",
                                                  connector |-> "..>"])]
      [] edit = "reversed_connector" ->
            [src EXCEPT !.code = @ \o "\n    Account <-- User",
                        !.connectors = Append(@, [line |-> "Account <-- User",
                                                  connector |-> "<--"])]

valid_symbols == <<"*--", "o--", "--", "<|--">>

\* `symbol in line` for a line whose connector is given
SymbolIn(symbol, connector) ==
    \/ symbol = connector
    \/ symbol = "--" /\ connector \in {"*--", "o--", "<|--", "<--"}

\* the call of re.search at line 103 raises NameError (ValidateRaises): the
\* lines after it are not run and validation_result, the dict the function
\* would return, is not returned
validate_mermaid_syntax(src) ==
    LET
        \* the loop over the lines: an error for every line that holds "--" and none
        \* of valid_symbols
        invalid_symbol_errors(code) ==
            LET bad == SelectSeq(code.connectors,
                                 LAMBDA l : /\ SymbolIn("--", l.connector)
                                            /\ ~\E i \in 1..Len(valid_symbols) :
                                                  SymbolIn(valid_symbols[i], l.connector))
            IN  [i \in 1..Len(bad) |-> "Invalid relationship symbol in line: " \o bad[i].line]
    IN
    LET errors ==
            (IF ~src.directive THEN <<"Missing 'classDiagram' directive">> ELSE << >>)
            \o (IF src.open_braces # src.close_braces
                THEN <<"Unbalanced braces in class definitions">> ELSE << >>)
            \o invalid_symbol_errors(src)
    IN  [raised |-> ValidateRaises,
         exception |-> "NameError: name 're' is not defined",
         validation_result |-> [is_valid |-> errors = << >>, errors |-> errors,
                                warnings |-> << >>]]

InitValidate ==
    /\ \E data \in SerializedModels :
          /\ ~FromDictRaises(data)
          /\ classes = from_dict(data).classes
          /\ relationships = from_dict(data).relationships
    /\ n = 0
    /\ k = 0
    /\ change = NoChange
    /\ result = "idle"
    /\ returned = None
    /\ added = [calls |-> 0, names |-> {}, attributes |-> {}, methods |-> {}]
    /\ text = << >>
    /\ adapter = None
    /\ extracted = << >>
    /\ chunking = None
    /\ nlp_result = NoResult

\* validate_mermaid_syntax on the rendering of the model, edited or not
ValidateSource ==
    LET
        SourceEdits == {"none", "open_brace", "close_brace", "no_directive",
                        "dotted_connector", "reversed_connector"}
    IN
    /\ result = "idle"
    /\ \E edit \in SourceEdits :
          LET src == Edited(Rendered(classes, relationships), edit)
              out == validate_mermaid_syntax(src)
          IN  /\ result' = IF out.raised THEN "NameError" ELSE "report"
              /\ returned' = [edit |-> edit, source |-> src,
                              report |-> IF out.raised THEN None
                                         ELSE out.validation_result]
    /\ UNCHANGED <<classes, relationships, change, k, n, added, nlp_vars>>

NextValidate == ValidateSource

SpecValidate == InitValidate /\ [][NextValidate]_vars

\* C19: for a rendering with one unmatched opening brace added,
\* validate_mermaid_syntax returns a report with is_valid false and the
\* error of unbalanced braces among its errors.
UnbalancedBraceReported ==
    (result \in {"report", "NameError"} /\ returned.edit = "open_brace")
        => /\ result = "report"
           /\ ~returned.report.is_valid
           /\ InSeq("Unbalanced braces in class definitions", returned.report.errors)

\* C20: when every change of the list was applied, update_diagram returns the
\* regenerated diagram with its validation report, not an error.
DiagramWithReport ==
    (result \notin {"running", "update_failed"}) => result = "diagram"

\* C21: for a source with a relationship line whose connector is none of
\* "*--", "o--", "--", "<|--", validate_mermaid_syntax returns a report with
\* is_valid false and the invalid-relationship-symbol error of that line.
InvalidSymbolReported ==
    (result \in {"report", "NameError"}
        /\ returned.edit \in {"dotted_connector", "reversed_connector"})
        => /\ result = "report"
           /\ ~returned.report.is_valid
           /\ \E i \in 1..Len(returned.source.connectors) :
                 /\ returned.source.connectors[i].connector \notin Range(valid_symbols)
                 /\ InSeq("Invalid relationship symbol in line: "
                              \o returned.source.connectors[i].line,
                          returned.report.errors)

\* C22: the rendering of every model that holds a class or a relationship, a
\* model with relationships and no class included, is the preamble, then the
\* block of every class in model order,
\* then the line of every relationship in model order, each line with the
\* connector symbol of the relationship's kind.
RenderStructure ==
    (result \in {"report", "NameError"} /\ returned.edit = "none"
        /\ (classes # << >> \/ relationships # << >>)) =>
        /\ returned.source.code =
              Join(<<"classDiagram">>
                   \o Flatten([i \in 1..Len(classes) |-> format_mermaid_class(classes[i])])
                   \o [i \in 1..Len(relationships) |->
                          format_mermaid_relationship(relationships[i])],
                   "\n    ")
        /\ \A i \in 1..Len(relationships) :
              format_mermaid_relationship(relationships[i])
                  = StripJoin(<<relationships[i].source,
                                Quoted(relationships[i].multiplicity_source),
                                relationship_symbols(relationships[i].type),
                                Quoted(relationships[i].multiplicity_target),
                                relationships[i].target
                                    \o (IF relationships[i].label # ""
                                        THEN " : " \o relationships[i].label ELSE "")>>)

-----------------------------------------------------------------------------
(* The routes /statistics and /export                                       *)
(*                                                                         *)
(* The model is the one UMLModel.from_dict builds of the request's          *)
(* 'uml_model', which is present and not empty.                             *)

get_diagram_statistics(cs, rs) ==
    LET by_type == {TypeValue(rs[i].type) : i \in 1..Len(rs)}
    IN  [classes |->
            [total |-> Len(cs),
             with_attributes |-> Len(SelectSeq(cs, LAMBDA c : c.attributes # << >>)),
             with_methods |-> Len(SelectSeq(cs, LAMBDA c : c.methods # << >>))],
         relationships |->
            [total |-> Len(rs),
             by_type |-> [t \in by_type |->
                             Len(SelectSeq(rs, LAMBDA r : TypeValue(r.type) = t))]],
         complexity |-> IF Len(cs) > 10 \/ Len(rs) > 15 THEN "complex"
                        ELSE IF Len(cs) > 5 \/ Len(rs) > 7 THEN "medium"
                        ELSE "simple"]

\* sum(len(cls.attributes) for cls in uml_model.classes), and the same for methods
RECURSIVE TotalMembers(_, _)
TotalMembers(cs, field) ==
    IF cs = << >> THEN 0 ELSE Len(Head(cs)[field]) + TotalMembers(Tail(cs), field)

\* detailed_stats of get_statistics, without the counts by type
DetailedStats(cs, rs) ==
    [classes |-> get_diagram_statistics(cs, rs).classes,
     relationships |-> get_diagram_statistics(cs, rs).relationships,
     complexity |-> get_diagram_statistics(cs, rs).complexity,
     attributes |-> [total |-> TotalMembers(cs, "attributes")],
     methods |-> [total |-> TotalMembers(cs, "methods")]]

Min(a, b) == IF a < b THEN a ELSE b

\* the score is a float whose values are whole numbers
_calculate_quality_score(stats) ==
    LET classes_score == IF stats.classes.total > 0 THEN 20 ELSE 0
        attributes_score == IF stats.attributes.total > 0 THEN 20 ELSE 0
        methods_score == IF stats.methods.total > 0 THEN 20 ELSE 0
        relationships_score == IF stats.relationships.total > 0 THEN 20 ELSE 0
        bonus == IF /\ stats.classes.total > 0
                    /\ stats.attributes.total > 0
                    /\ stats.relationships.total > 0
                 THEN 20 ELSE 0
    IN  Min(classes_score + attributes_score + methods_score + relationships_score
                + bonus, 100)

\* generate_diagram(uml_model, format_type): any format but "mermaid" gives
\* the error dict that lists 'mermaid' alone
generate_diagram_in(cs, rs, format_type) ==
    IF format_type = "mermaid"
    THEN [error |-> generate_diagram(cs, rs) # "diagram",
          supported_formats |-> None]
    ELSE [error |-> TRUE, supported_formats |-> <<"mermaid">>]

\* the response of export_diagram.  json.dumps(..., indent=2) is written as the
\* dict it dumps.
export_diagram(cs, rs, format) ==
    LET
        \* add_layout_direction(mermaid_code, "TB"): the line "    direction TB" is
        \* inserted after the first line of the code, which is "classDiagram"
        add_layout_direction(xs, ys) ==
            [first_line |-> "classDiagram", inserted |-> "    direction TB",
             mermaid_code |-> convert_to_mermaid(xs, ys)]
    IN
    LET format_type == IF format = None THEN "mermaid" ELSE Lower(format)
        diagram_result == generate_diagram_in(cs, rs, format_type)
    IN  IF format_type \notin {"mermaid", "json"}
        THEN [status |-> 400, code |-> "UNSUPPORTED_FORMAT",
              supported_formats |-> <<"mermaid", "json">>, data |-> None]
        ELSE IF diagram_result.error
        THEN [status |-> 400, code |-> None,
              supported_formats |-> diagram_result.supported_formats, data |-> None]
        ELSE IF format_type = "mermaid"
        THEN [status |-> 200, code |-> None, supported_formats |-> None,
              data |-> add_layout_direction(cs, rs)]
        ELSE [status |-> 200, code |-> None, supported_formats |-> None,
              data |-> [json |-> to_dict(cs, rs), indent |-> 2]]

InitRoutes ==
    /\ \E data \in SerializedModels :
          /\ ~FromDictRaises(data)
          /\ classes = from_dict(data).classes
          /\ relationships = from_dict(data).relationships
    /\ n = 0
    /\ k = 0
    /\ change = NoChange
    /\ result = "idle"
    /\ returned = None
    /\ added = [calls |-> 0, names |-> {}, attributes |-> {}, methods |-> {}]
    /\ text = << >>
    /\ adapter = None
    /\ extracted = << >>
    /\ chunking = None
    /\ nlp_result = NoResult

\* POST /statistics
GetStatistics ==
    LET
        \* the response of get_statistics for a model from_dict accepts
        get_statistics(cs, rs) ==
            [status |-> 200,
             statistics |-> DetailedStats(cs, rs),
             complexity |-> DetailedStats(cs, rs).complexity,
             quality_score |-> _calculate_quality_score(DetailedStats(cs, rs))]
    IN
    /\ result = "idle"
    /\ result' = "statistics"
    /\ returned' = get_statistics(classes, relationships)
    /\ UNCHANGED <<classes, relationships, change, k, n, added, nlp_vars>>

\* POST /export
ExportDiagram ==
    LET
        \* data.get('format', 'mermaid') of the requests; None when the key is missing
        ExportFormats == {None, "mermaid", "json", "JSON", "svg", "png"}
    IN
    /\ result = "idle"
    /\ \E format \in ExportFormats :
          /\ result' = "export"
          /\ returned' = [format |-> format,
                          response |-> export_diagram(classes, relationships, format)]
    /\ UNCHANGED <<classes, relationships, change, k, n, added, nlp_vars>>

NextRoutes == GetStatistics \/ ExportDiagram

SpecRoutes == InitRoutes /\ [][NextRoutes]_vars

\* whether any class of the model has an element in the member list
Present(cs, field) == \E c \in 1..Len(cs) : cs[c][field] # << >>

\* C23: the quality score is 20 for each of: a class, an attribute anywhere, a
\* method anywhere, a relationship; plus 20 exactly when attributes, methods
\* and relationships are all present; and it lies between 0 and 100.
QualityScore ==
    result = "statistics" =>
        LET reward(present) == IF present THEN 20 ELSE 0
            attributes == Present(classes, "attributes")
            methods == Present(classes, "methods")
        IN  /\ returned.quality_score =
                  reward(classes # << >>) + reward(attributes) + reward(methods)
                      + reward(relationships # << >>)
                      + reward(attributes /\ methods /\ relationships # << >>)
            /\ returned.quality_score \in 0..100

\* C24: an export succeeds with the diagram source for the format mermaid and
\* with the JSON dump of the serialized model for the format json; every
\* other format is rejected with the list of the supported formats.
ExportFormatsServed ==
    result = "export" =>
        LET format_type == IF returned.format = None THEN "mermaid"
                           ELSE Lower(returned.format)
        IN  CASE format_type = "mermaid" ->
                    /\ returned.response.status = 200
                    /\ returned.response.data.mermaid_code
                          = convert_to_mermaid(classes, relationships)
              [] format_type = "json" ->
                    /\ returned.response.status = 200
                    /\ returned.response.data.json = to_dict(classes, relationships)
              [] OTHER ->
                    /\ returned.response.status = 400
                    /\ returned.response.supported_formats = <<"mermaid", "json">>

-----------------------------------------------------------------------------
(* update_diagram on the change list [remove_relationship(A, B),            *)
(* add_relationship(B, A, kind)], for a model that holds the classes        *)
(* User and Account                                                         *)

\* the change is remove_relationship(source, target) with both names given
IsRemoveRelationship(ch) ==
    /\ ChangeType(ch) = "remove_relationship"
    /\ Get(ch, "source", None) \notin {None, ""}
    /\ Get(ch, "target", None) \notin {None, ""}

\* the change is add_relationship(source, target, kind) with one of the four kinds
IsAddRelationship(ch, source, target) ==
    /\ ChangeType(ch) = "add_relationship"
    /\ ~BadAddRelationship(ch)
    /\ Lower(Get(Get(ch, "relationship", EmptyDict), "source", "")) = Lower(source)
    /\ Lower(Get(Get(ch, "relationship", EmptyDict), "target", "")) = Lower(target)

InitScenario ==
    /\ \E data \in SerializedModels :
          /\ ~FromDictRaises(data)
          /\ classes = from_dict(data).classes
          /\ relationships = from_dict(data).relationships
    /\ find_class(classes, "User") # 0
    /\ find_class(classes, "Account") # 0
    /\ n = 2
    /\ k = 0
    /\ change = NoChange
    /\ result = "running"
    /\ returned = None
    /\ added = [calls |-> 0, names |-> {}, attributes |-> {}, methods |-> {}]
    /\ text = << >>
    /\ adapter = None
    /\ extracted = << >>
    /\ chunking = None
    /\ nlp_result = NoResult

\* the first iteration of the loop, on remove_relationship(A, B)
ScenarioRemove ==
    /\ k = 0
    /\ \E ch \in RemoveRelationshipChanges : IsRemoveRelationship(ch) /\ Step(ch)

\* the second iteration, on add_relationship(B, A, kind)
ScenarioAdd ==
    /\ k = 1
    /\ \E ch \in AddRelationshipChanges :
          IsAddRelationship(ch, change.target, change.source) /\ Step(ch)

NextScenario == ScenarioRemove \/ ScenarioAdd \/ ReturnDiagram

SpecScenario == InitScenario /\ [][NextScenario]_vars

\* C25: in a model with classes A and B, applying remove_relationship(A, B) and
\* then add_relationship(B, A, kind) leaves no relationship from A to B and
\* exactly one from B to A, of that kind, and leaves the classes as they were:
\* the removal leaves no relationship from A to B and the classes unchanged, and
\* the addition that follows it keeps both and leaves one relationship B to A.
RemoveThenAdd ==
    [][/\ (Iteration /\ k' = k + 1 /\ IsRemoveRelationship(change')) =>
            /\ classes' = classes
            /\ Matching(relationships', change'.source, change'.target) = {}
       /\ (/\ Iteration /\ k >= 1
           /\ IsRemoveRelationship(change)
           /\ Lower(change.source) # Lower(change.target)
           /\ find_class(classes, change.source) # 0
           /\ find_class(classes, change.target) # 0
           /\ IsAddRelationship(change', change.target, change.source)) =>
            /\ k' = k + 1
            /\ classes' = classes
            /\ Matching(relationships', change.source, change.target) = {}
            /\ Cardinality(Matching(relationships', change.target, change.source)) = 1
            /\ \A i \in Matching(relationships', change.target, change.source) :
                  relationships'[i].type
                      = RelationshipType(Get(change'.relationship, "type", "association"))
    ]_vars

\* the list [remove_relationship(user, account), add_relationship(Account, User,
\* aggregation)] was applied to a model that held relationships in both
\* directions, one after the other
C25_Witness ==
    /\ k = 2
    /\ result = "running"
    /\ IsAddRelationship(change, "Account", "User")
    /\ Matching(relationships, "User", "Account") = {}
    /\ \E i \in Matching(relationships, "Account", "User") :
          /\ relationships[i].type = "AGGREGATION"
          /\ relationships[i].confidence = DefaultConfidence

-----------------------------------------------------------------------------
(* TextPreprocessor.chunk_text                                              *)
(*                                                                         *)
(* Here a text is the sequence of its characters, "a" for any character    *)
(* that ends no sentence.  `chunking` holds the parameters and the locals   *)
(* of the call: chunk_size, overlap, start, chunks, and pc, which is        *)
(* "entry" before the first test, "loop" at the head of the while loop and  *)
(* "returned" after the return.                                             *)

MaxChars == 8         \* longest text given to chunk_text
MaxChunkSize == 7     \* largest chunk_size
MaxIterations == 5    \* most iterations of the loop that are followed

Max(a, b) == IF a > b THEN a ELSE b

\* t[a:b]
Slice(t, a, b) ==
    LET
        \* the index a slice bound stands for: a negative bound counts from the end
        SliceIndex(i, len) == IF i < 0 THEN Max(i + len, 0) ELSE Min(i, len)
    IN
    LET lo == SliceIndex(a, Len(t))
        hi == SliceIndex(b, Len(t))
    IN  IF lo < hi THEN SubSeq(t, lo + 1, hi) ELSE << >>

\* one pass through the body of the while loop, from the test of its condition.
\* sentence_end > chunk_size * 0.7 is compared in tenths.
chunk_text_iteration(t, c) ==
    LET
        \* chunk.rfind(c)
        rfind(s, sub) ==
            IF \E i \in 1..Len(s) : s[i] = sub
            THEN (CHOOSE i \in 1..Len(s) :
                    s[i] = sub /\ \A j \in (i + 1)..Len(s) : s[j] # sub) - 1
            ELSE -1
    IN
    LET end == c.start + c.chunk_size
        chunk == Slice(t, c.start, end)
        sentence_end == Max(rfind(chunk, "."), Max(rfind(chunk, "!"), rfind(chunk, "?")))
        at_sentence == 10 * sentence_end > 7 * c.chunk_size
        new_end == IF at_sentence THEN c.start + sentence_end + 1 ELSE end
    IN  IF ~(c.start < Len(t)) THEN [c EXCEPT !.pc = "returned"]
        ELSE IF end >= Len(t)
        THEN [c EXCEPT !.chunks = Append(@, Slice(t, c.start, Len(t))),
                       !.pc = "returned"]
        ELSE [c EXCEPT !.chunks = Append(@, IF at_sentence
                                            THEN Slice(t, c.start, new_end)
                                            ELSE chunk),
                       !.start = IF new_end < Len(t) THEN new_end - c.overlap
                                 ELSE new_end,
                       !.pc = "loop"]

InitChunks ==
    LET
        Characters == {"a", "."}
    IN
    /\ classes = << >>
    /\ relationships = << >>
    /\ n = 0
    /\ k = 0
    /\ change = NoChange
    /\ result = "idle"
    /\ returned = None
    /\ added = [calls |-> 0, names |-> {}, attributes |-> {}, methods |-> {}]
    /\ text \in SeqsUpTo(Characters, MaxChars)
    /\ adapter = None
    /\ extracted = << >>
    /\ nlp_result = NoResult
    /\ \E chunk_size \in 1..MaxChunkSize, overlap \in 0..(MaxChunkSize - 1) :
          /\ overlap < chunk_size
          /\ chunking = [chunk_size |-> chunk_size, overlap |-> overlap,
                         start |-> 0, chunks |-> << >>, pc |-> "entry"]

\* if len(text) <= chunk_size: return [text]
ReturnWholeText ==
    /\ chunking.pc = "entry"
    /\ Len(text) <= chunking.chunk_size
    /\ chunking' = [chunking EXCEPT !.chunks = <<text>>, !.pc = "returned"]
    /\ UNCHANGED <<classes, relationships, change, k, n, result, returned, added,
                   text, adapter, extracted, nlp_result>>

\* an iteration of the while loop, the first one included
ChunkIteration ==
    /\ \/ chunking.pc = "entry" /\ Len(text) > chunking.chunk_size
       \/ chunking.pc = "loop"
    /\ Len(chunking.chunks) < MaxIterations
    /\ chunking' = chunk_text_iteration(text, chunking)
    /\ UNCHANGED <<classes, relationships, change, k, n, result, returned, added,
                   text, adapter, extracted, nlp_result>>

NextChunks == ReturnWholeText \/ ChunkIteration

SpecChunks == InitChunks /\ [][NextChunks]_vars

\* C26: for chunk_size >= 1 and 0 <= overlap < chunk_size, every iteration of
\* chunk_text that does not return moves start forward, and the list returned
\* for a text that is not empty holds only chunks of 1 to chunk_size characters.
ChunkingAdvances ==
    [][/\ chunking'.pc = "loop" => chunking'.start > chunking.start
       /\ (chunking'.pc = "returned" /\ text # << >>) =>
             \A i \in 1..Len(chunking'.chunks) :
                 Len(chunking'.chunks[i]) \in 1..chunking.chunk_size
    ]_vars

-----------------------------------------------------------------------------
(* Properties of build_uml_model *)

\* C27: for an NLP result with at least one class, build_uml_model returns a
\* model in which every ATTRIBUTE entity is an attribute of the class its
\* owner hint names when that class exists, otherwise of the first class whose
\* name is a substring of its text ignoring case, otherwise of the class of
\* highest confidence, and of no other class.
AttributeAttached ==
    LET
        \* the classes of the model when the attributes are added: one per CLASS
        \* entity, the most confident first
        ClassesBeforeAttributes ==
            AddBuiltClasses(<< >>, _build_classes_from_entities(get_classes(nlp_result)))
    IN
    (result \in {"built", "TypeError"} /\ get_classes(nlp_result) # << >>) =>
        /\ result = "built"
        /\ \A i \in 1..Len(get_attributes(nlp_result)) :
              LET entity == get_attributes(nlp_result)[i]
                  owner == ClassesBeforeAttributes[
                               AttributeTarget(entity, ClassesBeforeAttributes)].name
              IN  \A c \in 1..Len(classes) :
                      (\E a \in 1..Len(classes[c].attributes) :
                           classes[c].attributes[a].name = entity.text)
                          <=> classes[c].name = owner

-----------------------------------------------------------------------------
(* Properties of a single change *)

\* C29: an add_relationship, remove_relationship or modify_relationship change
\* never alters the sequence of classes, and an add_class or modify_class
\* change, a rename included, never alters the sequence of relationships; only
\* remove_class can change both.
FrameSeparation ==
    [][Iteration =>
        /\ ChangeType(change') \in {"add_relationship", "remove_relationship",
                                    "modify_relationship"} => classes' = classes
        /\ ChangeType(change') \in {"add_class", "modify_class"} =>
              relationships' = relationships
        /\ (classes' # classes /\ relationships' # relationships) =>
              ChangeType(change') = "remove_class"
    ]_vars

\* a modify_class change renamed the class Account, and a relationship still
\* holds the name Account
C29_Witness ==
    /\ k >= 1
    /\ ChangeType(change) = "modify_class"
    /\ Get(change, "class_name", None) = "Account"
    /\ "name" \in DOMAIN change.modifications
    /\ find_class(classes, "Account") = 0
    /\ \E i \in 1..Len(relationships) : relationships[i].target = "Account"

\* C30: when applying a change raises, the model is as it was before that
\* change began.
AllOrNothing ==
    [][(Iteration /\ result' = "update_failed") =>
          (classes' = classes /\ relationships' = relationships)
    ]_vars

====
